---------------------------- MODULE Spec2Model ----------------------------
(***************************************************************************)
(* Block-compressed posting store and DAAT query engine (WSE-HW2).         *)
(*                                                                         *)
(* The module models, from the C++ sources:                                *)
(*   - the VarByte codec               (include/varbyte.hpp)               *)
(*   - the merger's block writer       (src/web_server.cpp, IndexMerger)   *)
(*   - the PostingList cursor          (include/utils.hpp)                 *)
(*   - the BM25 scorer                 (include/bm25.hpp)                  *)
(*   - the query evaluator             (include/querier.hpp)               *)
(*                                                                         *)
(* uint32_t values are pairs <<hi, lo>> of 16-bit limbs, so that the whole *)
(* 32-bit range is available and arithmetic wraps exactly as in the code.  *)
(***************************************************************************)
EXTENDS Integers, Sequences, FiniteSets, TLC

VARIABLES
    vb,     \* the codec under test: one encode call and one decode call
    inFile, \* the merger's input: the sorted postings, one row per line
    mg,     \* the IndexMerger: its locals, accumulators and output files
    pl,     \* a PostingList cursor driven call by call
    walk,   \* the calls made on pl: the term, the last call and its result
    qe,     \* a QueryEvaluator inside one processQuery call
    ws,     \* the web server: evalMutex, the shared objects, the request threads
    fsys,   \* the output files of the merger that cannot be opened
    ix      \* the IndexBuilder: its input, currentDocID and its output files

vars == <<vb, inFile, mg, pl, walk, qe, ws, fsys, ix>>

-----------------------------------------------------------------------------
(***************************************************************************)
(* uint32_t arithmetic on 16-bit limbs                                     *)
(***************************************************************************)
B16 == 2^16

Pow2(n) == 2^n

U32(n) == <<(n \div B16) % B16, n % B16>>

U32Zero == <<0, 0>>

\* UINT32_MAX
U32Max == <<B16 - 1, B16 - 1>>

\* the value as a natural number; defined for values below 2^31 only
ToNat(u) == u[1] * B16 + u[2]

IsSmall(u) == u[1] < 2^15

U32Lt(a, b) == a[1] < b[1] \/ (a[1] = b[1] /\ a[2] < b[2])

U32Le(a, b) == a = b \/ U32Lt(a, b)

\* a + b modulo 2^32
U32Add(a, b) ==
    LET lo == a[2] + b[2]
        hi == a[1] + b[1] + (lo \div B16)
    IN  <<hi % B16, lo % B16>>

\* a - b modulo 2^32
U32Sub(a, b) ==
    LET lo == a[2] - b[2]
        borrow == IF lo < 0 THEN 1 ELSE 0
        hi == a[1] - b[1] - borrow
    IN  <<hi % B16, lo % B16>>

\* value >> 7
U32Shr7(u) == <<u[1] \div 128, (u[1] % 128) * 512 + (u[2] \div 128)>>

\* value & 0x7F
U32Low7(u) == u[2] % 128

\* value >= 0x80
U32Ge80(u) == u[1] > 0 \/ u[2] >= 128

\* a | b on one limb, bit by bit; when a lies below bit 7 and b at or above
\* it no bit is shared and the result is the sum
RECURSIVE BitOr(_, _)
BitOr(a, b) ==
    IF a = 0 THEN b
    ELSE IF b = 0 THEN a
    ELSE IF a < 128 /\ b % 128 = 0 THEN a + b
    ELSE (IF (a % 2) + (b % 2) > 0 THEN 1 ELSE 0) + 2 * BitOr(a \div 2, b \div 2)

U32Or(a, b) == <<BitOr(a[1], b[1]), BitOr(a[2], b[2])>>

\* static_cast<uint32_t>(chunk) << s, for a 7-bit chunk and 0 <= s < 32
U32Shl(chunk, s) ==
    IF s < 16
    THEN LET x == chunk * Pow2(s) IN <<(x \div B16) % B16, x % B16>>
    ELSE <<(chunk * Pow2(s - 16)) % B16, 0>>

\* number of significant bits of a 16-bit limb
RECURSIVE BitLen16(_)
BitLen16(n) == IF n = 0 THEN 0 ELSE 1 + BitLen16(n \div 2)

\* number of significant bits of a uint32_t (0 for the value 0)
BitLength(u) == IF u[1] > 0 THEN 16 + BitLen16(u[1]) ELSE BitLen16(u[2])

-----------------------------------------------------------------------------
(***************************************************************************)
(* Byte streams: std::ostream is the sequence of bytes written so far,     *)
(* std::istream is the read position and good(); the bytes of the file it  *)
(* reads are passed along with it.                                         *)
(***************************************************************************)
\* a stream just opened on a file
IStream == [pos |-> 0, good |-> TRUE]

\* traits_type::eof()
EOF == -1

\* static_cast<unsigned char>(c)
ToUChar(c) == c % 256

\* is.get(): the next byte, or eof() with the stream failed from then on
StreamGet(data, is) ==
    IF is.good /\ is.pos < Len(data)
    THEN [c |-> data[is.pos + 1], is |-> [is EXCEPT !.pos = is.pos + 1]]
    ELSE [c |-> EOF, is |-> [is EXCEPT !.good = FALSE]]

\* is.seekg(offset) on a freshly opened stream
StreamSeek(is, offset) == [is EXCEPT !.pos = offset]

-----------------------------------------------------------------------------
(***************************************************************************)
(* varbyte::encode and varbyte::decode                                     *)
(***************************************************************************)
\* A plausible slip: the loop test written value > 0x80.
RECURSIVE EncodeStrictTest(_, _)
EncodeStrictTest(os, value) ==
    IF U32Lt(U32(128), value)
    THEN EncodeStrictTest(Append(os, U32Low7(value) + 128), U32Shr7(value))
    ELSE Append(os, U32Low7(value))

\* A plausible slip: the continuation bit set on the terminal byte and
\* clear on the others.
RECURSIVE EncodeFlagOnLast(_, _)
EncodeFlagOnLast(os, value) ==
    IF U32Ge80(value)
    THEN EncodeFlagOnLast(Append(os, U32Low7(value)), U32Shr7(value))
    ELSE Append(os, U32Low7(value) + 128)

\* varbyte::encode(os, value): the stream after the call
RECURSIVE encode(_, _)
encode(os, value) ==
    IF U32Ge80(value)
    THEN encode(Append(os, U32Low7(value) + 128), U32Shr7(value))
    ELSE Append(os, U32Low7(value))

\* The outcomes of  static_cast<uint32_t>(byte & 0x7F) << shift.  A shift of
\* 32 or more is undefined: the build either masks the count to five bits
\* (ub = "wrap") or shifts everything out (ub = "zero").
UBChoices == {"wrap", "zero"}

ShiftChunk(chunk, shift, ub) ==
    IF shift < 32 THEN U32Shl(chunk, shift)
    ELSE IF ub = "zero" THEN U32Zero
    ELSE U32Shl(chunk, shift % 32)

\* one pass through the body of decode's do-while loop
DecodeIter(data, d, ub) ==
    LET g == StreamGet(data, d.is)
        byte == ToUChar(g.c)
    IN  [is    |-> g.is,
         value |-> U32Or(d.value, ShiftChunk(byte % 128, d.shift, ub)),
         shift |-> d.shift + 7,
         byte  |-> byte]

\* the loop test  while (byte & 0x80)
DecodeContinues(d) == d.byte >= 128

DecodeStart(is) == [is |-> is, value |-> U32Zero, shift |-> 0, byte |-> 0]

\* varbyte::decode(is) run to its end.  status is "ok" when the call
\* returns; "hang" when get() has failed with the continuation bit of the
\* byte it produced set (every later get() fails the same way, so the loop
\* never exits); "ub" when a shift of 32 or more would be executed on a
\* byte read from the file.
RECURSIVE DecodeLoop(_, _)

\* the loop test after the pass that left n
DecodeTest(data, n) ==
    IF ~DecodeContinues(n) THEN [status |-> "ok", value |-> n.value, is |-> n.is]
    ELSE IF ~n.is.good THEN [status |-> "hang", value |-> n.value, is |-> n.is]
    ELSE DecodeLoop(data, n)

DecodeLoop(data, d) ==
    IF d.shift >= 32 /\ d.is.good /\ d.is.pos < Len(data)
    THEN [status |-> "ub", value |-> d.value, is |-> d.is]
    ELSE DecodeTest(data, DecodeIter(data, d, "wrap"))

decode(data, is) == DecodeLoop(data, DecodeStart(is))

-----------------------------------------------------------------------------
(***************************************************************************)
(* IndexMerger: the block writer and the driver loop                       *)
(***************************************************************************)
BLOCK_SIZE == 128

Min(a, b) == IF a < b THEN a ELSE b

\* std::vector<uint32_t> docLengths: its size and its non-zero entries
\* (an entry that was never added to is 0)
EmptyDocLengths == [size |-> 0, nz |-> <<>>]

DocLengthAt(dl, d) == IF d \in DOMAIN dl.nz THEN dl.nz[d] ELSE U32Zero

\* if (docID >= docLengths.size()) docLengths.resize(docID + 1, 0);
\* docLengths[docID] += tf;
AddDocLength(dl, docID, tf) ==
    LET d == ToNat(docID)
        size == IF d >= dl.size THEN ToNat(U32Add(docID, U32(1))) ELSE dl.size
    IN  [size |-> size,
         nz   |-> [k \in (DOMAIN dl.nz) \cup {d} |->
                      IF k = d THEN U32Add(DocLengthAt(dl, d), tf) ELSE dl.nz[k]]]

\* A plausible slip: the gap taken from the previous posting of the list,
\* so that only the first block of a list starts with an absolute docID.
WriteGapCarried(st, postings, start, i) ==
    LET docID == postings[start + i + 1].docID
        gap == IF start + i = 0 THEN docID
               ELSE U32Sub(docID, postings[start + i].docID)
    IN  [os |-> encode(st.os, gap), prevDocID |-> docID]

\* the body of the loop of writeDocIDsBlock, for one i; st holds docIdsFile
\* and prevDocID
WriteGap(st, postings, start, i) ==
    LET docID == postings[start + i + 1].docID
        gap == IF i = 0 THEN docID ELSE U32Sub(docID, st.prevDocID)
    IN  [os |-> encode(st.os, gap), prevDocID |-> docID]

\* the loop of writeDocIDsBlock for i = lo .. hi - 1, in order: the first
\* half of the range is written, then the second, which keeps the
\* evaluation shallow
RECURSIVE WriteGaps(_, _, _, _, _)
WriteGaps(st, postings, start, lo, hi) ==
    IF lo >= hi THEN st
    ELSE IF hi = lo + 1 THEN WriteGap(st, postings, start, lo)
    ELSE LET mid == (lo + hi) \div 2
             first == WriteGaps(st, postings, start, lo, mid)
         IN  IF Len(first.os) > Len(st.os)
             THEN WriteGaps(first, postings, start, mid, hi)
             ELSE first

\* writeDocIDsBlock(postings, start, length): docIdsFile after the call
writeDocIDsBlock(os, postings, start, length) ==
    WriteGaps([os |-> encode(os, U32(length)), prevDocID |-> U32Zero],
              postings, start, 0, length).os

\* A plausible slip: cf += tf left out of the loop.
WriteFreqUncounted(w, postings, start, i) ==
    LET p == postings[start + i + 1]
    IN  [os |-> encode(w.os, p.frequency),
         cf |-> w.cf,
         docLengths |-> AddDocLength(w.docLengths, p.docID, p.frequency)]

\* the body of the loop of writeFrequenciesBlock, for one i; w holds
\* freqsFile, cf and docLengths
WriteFreq(w, postings, start, i) ==
    LET p == postings[start + i + 1]
    IN  [os |-> encode(w.os, p.frequency),
         cf |-> w.cf + ToNat(p.frequency),
         docLengths |-> AddDocLength(w.docLengths, p.docID, p.frequency)]

\* the loop of writeFrequenciesBlock for i = lo .. hi - 1, in order
RECURSIVE WriteFreqs(_, _, _, _, _)
WriteFreqs(w, postings, start, lo, hi) ==
    IF lo >= hi THEN w
    ELSE IF hi = lo + 1 THEN WriteFreq(w, postings, start, lo)
    ELSE LET mid == (lo + hi) \div 2
             first == WriteFreqs(w, postings, start, lo, mid)
         IN  IF Len(first.os) > Len(w.os)
             THEN WriteFreqs(first, postings, start, mid, hi)
             ELSE first

\* A plausible slip: BLOCK_SIZE written as the length of every block of the
\* frequency file.
writeFrequenciesBlockFull(w, postings, start, length) ==
    WriteFreqs([w EXCEPT !.os = encode(w.os, U32(BLOCK_SIZE))], postings, start, 0, length)

\* writeFrequenciesBlock(postings, start, length, cf)
writeFrequenciesBlock(w, postings, start, length) ==
    WriteFreqs([w EXCEPT !.os = encode(w.os, U32(length))], postings, start, 0, length)

\* the block loop of writeInvertedList; b holds both files, cf, docLengths
\* and blocksCount
RECURSIVE WriteBlocks(_, _, _)
WriteBlocks(b, postings, i) ==
    IF i >= Len(postings) THEN b
    ELSE LET blockLen == Min(BLOCK_SIZE, Len(postings) - i)
             w == writeFrequenciesBlock(
                      [os |-> b.freqsFile, cf |-> b.cf, docLengths |-> b.docLengths],
                      postings, i, blockLen)
         IN  WriteBlocks([docIdsFile  |-> writeDocIDsBlock(b.docIdsFile, postings, i, blockLen),
                          freqsFile   |-> w.os,
                          cf          |-> w.cf,
                          docLengths  |-> w.docLengths,
                          blocksCount |-> b.blocksCount + 1],
                         postings, i + BLOCK_SIZE)

\* A plausible slip: blocks_count taken as df / BLOCK_SIZE, rounded down.
writeInvertedListFloor(m, term, postings) ==
    IF postings = <<>> THEN m
    ELSE LET docIdsOffset == Len(m.docIdsFile)
             freqsOffset == Len(m.freqsFile)
             df == Len(postings)
             b == WriteBlocks([docIdsFile |-> m.docIdsFile, freqsFile |-> m.freqsFile,
                               cf |-> 0, docLengths |-> m.docLengths, blocksCount |-> 0],
                              postings, 0)
         IN  [m EXCEPT !.docIdsFile = b.docIdsFile,
                       !.freqsFile = b.freqsFile,
                       !.docLengths = b.docLengths,
                       !.lexiconFile = Append(@, [term |-> term, df |-> df, cf |-> b.cf,
                                                  docids_offset |-> docIdsOffset,
                                                  freqs_offset |-> freqsOffset,
                                                  blocks |-> df \div BLOCK_SIZE]),
                       !.totalTerms = @ + 1,
                       !.totalPostings = @ + df]

\* A plausible slip: tellp() asked after the blocks are written.
writeInvertedListLate(m, term, postings) ==
    IF postings = <<>> THEN m
    ELSE LET docIdsOffset == Len(m.docIdsFile)
             freqsOffset == Len(m.freqsFile)
             df == Len(postings)
             b == WriteBlocks([docIdsFile |-> m.docIdsFile, freqsFile |-> m.freqsFile,
                               cf |-> 0, docLengths |-> m.docLengths, blocksCount |-> 0],
                              postings, 0)
         IN  [m EXCEPT !.docIdsFile = b.docIdsFile,
                       !.freqsFile = b.freqsFile,
                       !.docLengths = b.docLengths,
                       !.lexiconFile = Append(@, [term |-> term, df |-> df, cf |-> b.cf,
                                                  docids_offset |-> Len(b.docIdsFile),
                                                  freqs_offset |-> Len(b.freqsFile),
                                                  blocks |-> b.blocksCount]),
                       !.totalTerms = @ + 1,
                       !.totalPostings = @ + df]

\* writeInvertedList(term, postings): the merger after the call
writeInvertedList(m, term, postings) ==
    IF postings = <<>> THEN m
    ELSE LET docIdsOffset == Len(m.docIdsFile)
             freqsOffset == Len(m.freqsFile)
             df == Len(postings)
             b == WriteBlocks([docIdsFile |-> m.docIdsFile, freqsFile |-> m.freqsFile,
                               cf |-> 0, docLengths |-> m.docLengths, blocksCount |-> 0],
                              postings, 0)
         IN  [m EXCEPT !.docIdsFile = b.docIdsFile,
                       !.freqsFile = b.freqsFile,
                       !.docLengths = b.docLengths,
                       !.lexiconFile = Append(@, [term |-> term, df |-> df, cf |-> b.cf,
                                                  docids_offset |-> docIdsOffset,
                                                  freqs_offset |-> freqsOffset,
                                                  blocks |-> b.blocksCount]),
                       !.totalTerms = @ + 1,
                       !.totalPostings = @ + df]

\* A double written with operator<< keeps six significant digits: avgdl is
\* the pair (mant, exp) standing for mant * 10^exp, with mant of six digits
\* unless the value is 0.
AvgdlZero == [mant |-> 0, exp |-> 0]

\* the digits of total / n taken one by one until there are six of them; r
\* is the remainder left over
RECURSIVE SixDigits(_, _, _, _)
SixDigits(q, r, n, exp) ==
    IF q >= 100000 THEN [q |-> q, r |-> r, exp |-> exp]
    ELSE SixDigits(q * 10 + (r * 10) \div n, (r * 10) % n, n, exp - 1)

\* the sixth digit rounded on what follows it (at least half of the unit, up)
RoundSixth(q, roundUp, exp) ==
    IF ~roundUp THEN [mant |-> q, exp |-> exp]
    ELSE IF q + 1 = 1000000 THEN [mant |-> 100000, exp |-> exp + 1]
    ELSE [mant |-> q + 1, exp |-> exp]

SixDigitsRounded(d, n) == RoundSixth(d.q, 2 * d.r >= n, d.exp)

\* double avgdl = (docCount > 0) ? totalDocLength / docCount : 0.0, as
\* statsFile << avgdl writes it (an average below 10^6)
AvgdlPrinted(totalDocLength, docCount) ==
    IF docCount = 0 \/ totalDocLength = 0 THEN AvgdlZero
    ELSE SixDigitsRounded(SixDigits(totalDocLength \div docCount,
                                    totalDocLength % docCount, docCount, 0),
                          docCount)

\* the files the constructor opens, and those writeStats() opens
CtorFiles == {"postings.docids.bin", "postings.freqs.bin", "lexicon.tsv"}

StatsFiles == {"doc_len.bin", "stats.txt"}

\* the IndexMerger as constructed, before process() has read a line, by a
\* constructor that has opened its three files; opened
\* are the output files opened so far, warnings the lines written to cerr
\* for malformed input lines
MergerConstructed ==
    [pc |-> "reading", line |-> 0, opened |-> CtorFiles, warnings |-> 0,
     currentTerm |-> "", currentPostings |-> <<>>,
     docIdsFile |-> <<>>, freqsFile |-> <<>>, lexiconFile |-> <<>>,
     totalTerms |-> 0, totalPostings |-> 0, docCount |-> 0,
     docLengths |-> EmptyDocLengths,
     docLenFile |-> EmptyDocLengths,
     statsFile |-> [doc_count |-> 0, total_terms |-> 0, total_postings |-> 0,
                    avgdl |-> AvgdlZero, total_doc_length |-> 0]]

\* A plausible slip: docCount = docID, without the + 1.
ProcessLineLast(m, row) ==
    LET counted == IF ToNat(row.docID) >= m.docCount
                   THEN [m EXCEPT !.docCount = ToNat(row.docID)]
                   ELSE m
        flushed == IF row.term # counted.currentTerm
                   THEN IF counted.currentPostings # <<>>
                        THEN [writeInvertedList(counted, counted.currentTerm,
                                                counted.currentPostings)
                                EXCEPT !.currentPostings = <<>>,
                                       !.currentTerm = row.term]
                        ELSE [counted EXCEPT !.currentTerm = row.term]
                   ELSE counted
    IN  [flushed EXCEPT !.currentPostings =
                            Append(@, [docID |-> row.docID, frequency |-> row.tf]),
                        !.line = @ + 1]

\* one pass of the getline loop of process() on a well-formed row
ProcessLine(m, row) ==
    LET counted == IF ToNat(row.docID) >= m.docCount
                   THEN [m EXCEPT !.docCount = ToNat(U32Add(row.docID, U32(1)))]
                   ELSE m
        flushed == IF row.term # counted.currentTerm
                   THEN IF counted.currentPostings # <<>>
                        THEN [writeInvertedList(counted, counted.currentTerm,
                                                counted.currentPostings)
                                EXCEPT !.currentPostings = <<>>,
                                       !.currentTerm = row.term]
                        ELSE [counted EXCEPT !.currentTerm = row.term]
                   ELSE counted
    IN  [flushed EXCEPT !.currentPostings =
                            Append(@, [docID |-> row.docID, frequency |-> row.tf]),
                        !.line = @ + 1]

\* for (uint32_t len : docLengths) totalDocLength += len;  over the entries
\* lo .. hi - 1 (entries that are 0 add nothing; the range is halved)
RECURSIVE SumLengths(_, _, _)
SumLengths(nz, lo, hi) ==
    LET keys == {k \in DOMAIN nz : lo <= k /\ k < hi}
    IN  IF keys = {} THEN 0
        ELSE IF Cardinality(keys) = 1 THEN ToNat(nz[CHOOSE k \in keys : TRUE])
        ELSE LET mid == (lo + hi) \div 2
             IN  SumLengths(nz, lo, mid) + SumLengths(nz, mid, hi)

\* stats.txt as written, given totalDocLength
StatsWritten(m, totalDocLength) ==
    [doc_count |-> m.docCount,
     total_terms |-> m.totalTerms,
     total_postings |-> m.totalPostings,
     avgdl |-> AvgdlPrinted(totalDocLength, m.docCount),
     total_doc_length |-> totalDocLength]

\* writeStats() when the files of closed cannot be opened: doc_len.bin is
\* written if it opens (a warning if not), and stats.txt if it opens (a
\* message and a return if not)
writeStatsWith(m, closed) ==
    LET lens == IF "doc_len.bin" \in closed THEN m
                ELSE [m EXCEPT !.docLenFile = m.docLengths,
                               !.opened = @ \cup {"doc_len.bin"}]
    IN  IF "stats.txt" \in closed THEN lens
        ELSE [lens EXCEPT
                !.opened = @ \cup {"stats.txt"},
                !.statsFile =
                    StatsWritten(m, SumLengths(m.docLengths.nz, 0, m.docLengths.size))]

\* writeStats(): doc_len.bin and stats.txt
writeStats(m) == writeStatsWith(m, {})

\* A plausible slip: the list of the last term not written after the loop.
ProcessEndUnflushed(m, closed) == [writeStatsWith(m, closed) EXCEPT !.pc = "done"]

\* process() after the last line: the last term is written, then the stats
ProcessEndWith(m, closed) ==
    LET last == IF m.currentPostings # <<>>
                THEN writeInvertedList(m, m.currentTerm, m.currentPostings)
                ELSE m
    IN  [writeStatsWith(last, closed) EXCEPT !.pc = "done"]

ProcessEnd(m) == ProcessEndWith(m, {})

\* the getline loop of process() over the rows lo .. hi - 1, in order
RECURSIVE ProcessLines(_, _, _, _)
ProcessLines(m, rows, lo, hi) ==
    IF lo >= hi THEN m
    ELSE IF hi = lo + 1 THEN ProcessLine(m, rows[lo])
    ELSE LET mid == (lo + hi) \div 2
             first == ProcessLines(m, rows, lo, mid)
         IN  IF first.line < mid - 1 THEN first
             ELSE ProcessLines(first, rows, mid, hi)

\* process() run over a whole input
process(rows) == ProcessEnd(ProcessLines(MergerConstructed, rows, 1, Len(rows) + 1))

\* the merger reads the next line of its input
MergerLine ==
    /\ mg.pc = "reading"
    /\ mg.line < Len(inFile)
    /\ mg' = ProcessLine(mg, inFile[mg.line + 1])

\* the merger has read its whole input
MergerEnd ==
    /\ mg.pc = "reading"
    /\ mg.line = Len(inFile)
    /\ mg' = ProcessEnd(mg)

-----------------------------------------------------------------------------
(***************************************************************************)
(* Lexicon and PostingList.  Every call returns the object after the call  *)
(* (c), the value returned (ret) and whether the call returned at all      *)
(* (status, as for decode).                                                *)
(***************************************************************************)
\* Lexicon::load: term -> TermMeta, a later record replacing an earlier one
RECURSIVE LexiconLoad(_, _, _)
LexiconLoad(terms, file, i) ==
    IF i > Len(file) THEN terms
    ELSE LET r == file[i]
             meta == [df |-> r.df, cf |-> r.cf, docids_offset |-> r.docids_offset,
                      freqs_offset |-> r.freqs_offset, blocks |-> r.blocks]
         IN  LexiconLoad([t \in (DOMAIN terms) \cup {r.term} |->
                             IF t = r.term THEN meta ELSE terms[t]], file, i + 1)

Lexicon(m) == LexiconLoad(<<>>, m.lexiconFile, 1)

\* Lexicon::find(term, out)
LexiconFind(lexicon, term) == term \in DOMAIN lexicon

\* the posting files as the querier opens them
PostingFiles(m) == [docids |-> m.docIdsFile, freqs |-> m.freqsFile]

\* PostingList()
NewPostingList ==
    [docidsFile |-> IStream, freqsFile |-> IStream,
     totalBlocks |-> 0, currentBlock |-> 0, blockLen |-> U32Zero, blockPos |-> 0,
     currentDocID |-> U32Zero, currentFreq |-> U32Zero, hasMore |-> FALSE,
     docIDsBuffer |-> <<>>, freqsBuffer |-> <<>>]

\* the body of the docID loop of loadNextBlock for one i, given what decode
\* returned (r); st holds the stream, prevDocID, docIDsBuffer and whether
\* every decode so far has returned
PushDocID(st, i, r) ==
    IF r.status # "ok" THEN [st EXCEPT !.status = r.status, !.is = r.is]
    ELSE [status |-> "ok", is |-> r.is,
          prevDocID |-> IF i = 0 THEN r.value ELSE U32Add(st.prevDocID, r.value),
          buffer |-> Append(st.buffer,
                            IF i = 0 THEN r.value ELSE U32Add(st.prevDocID, r.value))]

DecodeDocID(data, st, i) ==
    IF st.status # "ok" THEN st ELSE PushDocID(st, i, decode(data, st.is))

\* the docID loop of loadNextBlock for i = lo .. hi - 1, in order
RECURSIVE DecodeDocIDs(_, _, _, _)
DecodeDocIDs(data, st, lo, hi) ==
    IF lo >= hi THEN st
    ELSE IF hi = lo + 1 THEN DecodeDocID(data, st, lo)
    ELSE LET mid == (lo + hi) \div 2
             first == DecodeDocIDs(data, st, lo, mid)
         IN  IF first.status # "ok" THEN first
             ELSE DecodeDocIDs(data, first, mid, hi)

\* the body of the frequency loop of loadNextBlock, given what decode
\* returned (r)
PushFreq(st, r) ==
    IF r.status # "ok" THEN [st EXCEPT !.status = r.status, !.is = r.is]
    ELSE [status |-> "ok", is |-> r.is, buffer |-> Append(st.buffer, r.value)]

DecodeFreq(data, st) ==
    IF st.status # "ok" THEN st ELSE PushFreq(st, decode(data, st.is))

\* the frequency loop of loadNextBlock for i = lo .. hi - 1, in order
RECURSIVE DecodeFreqs(_, _, _, _)
DecodeFreqs(data, st, lo, hi) ==
    IF lo >= hi THEN st
    ELSE IF hi = lo + 1 THEN DecodeFreq(data, st)
    ELSE LET mid == (lo + hi) \div 2
             first == DecodeFreqs(data, st, lo, mid)
         IN  IF first.status # "ok" THEN first
             ELSE DecodeFreqs(data, first, mid, hi)

\* blockLen as a loop bound; the lists read here have blocks of at most
\* BLOCK_SIZE postings, a longer count runs the loop off the end of the file
LoopBound(blockLen) == IF IsSmall(blockLen) THEN ToNat(blockLen) ELSE B16

Returned(c, ret) == [c |-> c, ret |-> ret, status |-> "ok"]

NotReturned(c, status) == [c |-> c, ret |-> FALSE, status |-> status]

\* A plausible slip: blockPos = 0 left out at the end of loadNextBlock.
LoadFreqsPosKept(c, fs) ==
    IF fs.status # "ok"
    THEN NotReturned([c EXCEPT !.freqsFile = fs.is, !.freqsBuffer = fs.buffer],
                     fs.status)
    ELSE Returned([c EXCEPT !.freqsFile = fs.is, !.freqsBuffer = fs.buffer,
                            !.currentBlock = @ + 1], TRUE)

\* loadNextBlock from the frequency loop on, given what the loop left (fs)
LoadFreqs(c, fs) ==
    IF fs.status # "ok"
    THEN NotReturned([c EXCEPT !.freqsFile = fs.is, !.freqsBuffer = fs.buffer],
                     fs.status)
    ELSE Returned([c EXCEPT !.freqsFile = fs.is, !.freqsBuffer = fs.buffer,
                            !.blockPos = 0, !.currentBlock = @ + 1], TRUE)

\* loadNextBlock from the block length of the frequency file on, given what
\* decode returned for it (lenFreq)
LoadFreqsLength(c, files, lenFreq) ==
    IF lenFreq.status # "ok"
    THEN NotReturned([c EXCEPT !.freqsFile = lenFreq.is], lenFreq.status)
    ELSE IF lenFreq.value # c.blockLen
    THEN Returned([c EXCEPT !.freqsFile = lenFreq.is, !.hasMore = FALSE], FALSE)
    ELSE LoadFreqs([c EXCEPT !.freqsFile = lenFreq.is],
                   DecodeFreqs(files.freqs,
                               [status |-> "ok", is |-> lenFreq.is, buffer |-> <<>>],
                               0, LoopBound(c.blockLen)))

\* loadNextBlock from the docID loop on, given what the loop left (ids)
LoadDocIDs(c, files, ids) ==
    IF ids.status # "ok"
    THEN NotReturned([c EXCEPT !.docidsFile = ids.is, !.docIDsBuffer = ids.buffer],
                     ids.status)
    ELSE LoadFreqsLength([c EXCEPT !.docidsFile = ids.is,
                                   !.docIDsBuffer = ids.buffer],
                         files, decode(files.freqs, c.freqsFile))

\* loadNextBlock from the block length of the docID file on, given what
\* decode returned for it (len)
LoadBlockLength(c, files, len) ==
    IF len.status # "ok"
    THEN NotReturned([c EXCEPT !.blockLen = len.value, !.docidsFile = len.is],
                     len.status)
    ELSE IF ~len.is.good
    THEN Returned([c EXCEPT !.blockLen = len.value, !.docidsFile = len.is,
                            !.hasMore = FALSE], FALSE)
    ELSE LoadDocIDs([c EXCEPT !.blockLen = len.value, !.docidsFile = len.is],
                    files,
                    DecodeDocIDs(files.docids,
                                 [status |-> "ok", is |-> len.is,
                                  prevDocID |-> U32Zero, buffer |-> <<>>],
                                 0, LoopBound(len.value)))

\* PostingList::loadNextBlock()
loadNextBlock(c, files) ==
    IF c.currentBlock >= c.totalBlocks
    THEN Returned([c EXCEPT !.hasMore = FALSE], FALSE)
    ELSE LoadBlockLength(c, files, decode(files.docids, c.docidsFile))

\* the cursor takes the first posting of the block just loaded, if
\* loadNextBlock (r) returned true and the block is not empty
FirstOfBlock(r) ==
    IF r.status # "ok" THEN r
    ELSE IF r.ret /\ U32Lt(U32Zero, r.c.blockLen)
    THEN Returned([r.c EXCEPT !.currentDocID = r.c.docIDsBuffer[1],
                              !.currentFreq = r.c.freqsBuffer[1]], TRUE)
    ELSE Returned([r.c EXCEPT !.hasMore = FALSE], FALSE)

\* PostingList::open(meta, indexDir), from the first loadNextBlock (r) on
OpenFirstBlock(r) ==
    IF r.status # "ok" THEN r
    ELSE IF ~r.ret THEN Returned(r.c, FALSE)
    ELSE FirstOfBlock(r)

\* PostingList::open(meta, indexDir)
open(c, meta, files) ==
    OpenFirstBlock(
        loadNextBlock([c EXCEPT !.docidsFile = StreamSeek(IStream, meta.docids_offset),
                                !.freqsFile = StreamSeek(IStream, meta.freqs_offset),
                                !.totalBlocks = meta.blocks,
                                !.currentBlock = 0,
                                !.hasMore = TRUE],
                      files))

\* PostingList::next() after blockPos++
NextInBlock(c, files) ==
    IF U32Lt(U32(c.blockPos), c.blockLen)
    THEN Returned([c EXCEPT !.currentDocID = c.docIDsBuffer[c.blockPos + 1],
                            !.currentFreq = c.freqsBuffer[c.blockPos + 1]], TRUE)
    ELSE FirstOfBlock(loadNextBlock(c, files))

\* A plausible slip: next() without its first line, if (!hasMore) return
\* false.
NextUnguarded(c, files) == NextInBlock([c EXCEPT !.blockPos = @ + 1], files)

\* PostingList::next()
next(c, files) ==
    IF ~c.hasMore THEN Returned(c, FALSE)
    ELSE NextInBlock([c EXCEPT !.blockPos = @ + 1], files)

\* A plausible slip: the loop test written currentDocID <= target.
NextGEQTestInclusive(c, target) == c.hasMore /\ U32Le(c.currentDocID, target)

\* the loop test of nextGEQ:  hasMore && currentDocID < target
NextGEQTest(c, target) == c.hasMore /\ U32Lt(c.currentDocID, target)

\* the body of the loop of nextGEQ, given what next() returned (n).  r holds
\* the cursor and, once the function has left the loop, done and what it
\* returns
NextGEQBody(r, n) ==
    IF n.status # "ok"
    THEN [c |-> n.c, done |-> TRUE, status |-> n.status, ret |-> FALSE]
    ELSE IF ~n.ret
    THEN [c |-> n.c, done |-> TRUE, status |-> "ok", ret |-> FALSE]
    ELSE [r EXCEPT !.c = n.c]

\* one pass of the loop of nextGEQ: the test, then the body or the return
\* after the loop
NextGEQPass(r, target, files) ==
    IF r.done THEN r
    ELSE IF ~NextGEQTest(r.c, target)
    THEN [c |-> r.c, done |-> TRUE, status |-> "ok",
          ret |-> r.c.hasMore /\ ~U32Lt(r.c.currentDocID, target)]
    ELSE NextGEQBody(r, next(r.c, files))

\* n passes of the loop, in order
RECURSIVE NextGEQPasses(_, _, _, _)
NextGEQPasses(r, target, files, n) ==
    IF n = 0 \/ r.done THEN r
    ELSE IF n = 1 THEN NextGEQPass(r, target, files)
    ELSE LET first == NextGEQPasses(r, target, files, n \div 2)
         IN  IF first.done THEN first
             ELSE NextGEQPasses(first, target, files, n - n \div 2)

\* the loop run until the function returns: n passes, then twice as many
RECURSIVE NextGEQLoop(_, _, _, _)

NextGEQAgain(q, target, files, n) ==
    IF q.done THEN q ELSE NextGEQLoop(q, target, files, 2 * n)

NextGEQLoop(r, target, files, n) ==
    NextGEQAgain(NextGEQPasses(r, target, files, n), target, files, n)

\* PostingList::nextGEQ(target): the cursor after the call (c), the value
\* returned (ret) and whether the call returned (status)
nextGEQ(c, target, files) ==
    NextGEQLoop([c |-> c, done |-> FALSE, status |-> "ok", ret |-> FALSE],
                target, files, 1)

\* doc(), freq(), valid()
doc(c) == c.currentDocID

freq(c) == c.currentFreq

valid(c) == c.hasMore

-----------------------------------------------------------------------------
(***************************************************************************)
(* The codec on its own: one value is encoded into an empty stream, the    *)
(* stream is read back whole or cut short, and decode runs one loop pass   *)
(* per step.                                                               *)
(***************************************************************************)
\* the decode loop is followed for this many bits of shift at most
MaxShift == 56

CodecValues ==
    {U32(0), U32(1), U32(127), U32(128), U32(129), U32(300), U32(824),
     U32(16383), U32(16384), U32(2^21 - 1), U32(2^21), U32(2^28 - 1),
     U32(2^28), <<2^15 - 1, B16 - 1>>, <<2^15, 0>>, <<B16 - 1, 0>>, U32Max}

\* no call has been made on the cursor yet.  n counts the postings that
\* open() and next() have yielded; target and wasValid describe the last
\* nextGEQ call.
NoWalk == [term |-> "", op |-> "none", ret |-> FALSE, status |-> "ok", n |-> 0,
           sum |-> 0, target |-> U32Zero, wasValid |-> FALSE]

VbIdle == [pc |-> "idle"]

\* no query is being evaluated
QeIdle == [pc |-> "idle"]

\* no web server, and every output file of the merger can be opened
WsIdle == [pc |-> "idle"]

IxIdle == [pc |-> "idle"]

AllOpen == {}

VbInit ==
    \E v \in CodecValues :
        vb = [pc |-> "start", v |-> v, os |-> <<>>, cut |-> 0, file |-> <<>>,
              is |-> IStream, value |-> U32Zero, shift |-> 0, byte |-> 0]

CodecInit ==
    /\ VbInit
    /\ inFile = <<>>
    /\ mg = MergerConstructed
    /\ pl = NewPostingList
    /\ walk = NoWalk
    /\ qe = QeIdle
    /\ ws = WsIdle
    /\ fsys = AllOpen
    /\ ix = IxIdle

\* encode(os, v)
VbEncode ==
    /\ vb.pc = "start"
    /\ vb' = [vb EXCEPT !.pc = "encoded", !.os = encode(vb.os, vb.v)]

\* the bytes are opened for reading as written
VbOpen ==
    /\ vb.pc = "encoded"
    /\ vb' = [vb EXCEPT !.pc = "decode", !.file = vb.os, !.is = IStream]

\* the bytes are opened for reading with the last n bytes missing
VbOpenTruncated ==
    /\ vb.pc = "encoded"
    /\ \E n \in 1..Len(vb.os) :
          vb' = [vb EXCEPT !.pc = "decode", !.cut = n, !.is = IStream,
                           !.file = SubSeq(vb.os, 1, Len(vb.os) - n)]

\* one pass of decode's loop; the call returns when the loop test fails
VbDecodeIter ==
    /\ vb.pc = "decode"
    /\ vb.shift < MaxShift
    /\ \E ub \in UBChoices :
          LET n == DecodeIter(vb.file,
                              [is |-> vb.is, value |-> vb.value,
                               shift |-> vb.shift, byte |-> vb.byte], ub)
          IN  vb' = [vb EXCEPT !.is = n.is, !.value = n.value,
                               !.shift = n.shift, !.byte = n.byte,
                               !.pc = IF DecodeContinues(n) THEN "decode"
                                      ELSE "returned"]

CodecNext ==
    /\ VbEncode \/ VbOpen \/ VbOpenTruncated \/ VbDecodeIter
    /\ UNCHANGED <<inFile, mg, pl, walk, qe, ws, fsys, ix>>

SpecCodec == CodecInit /\ [][CodecNext]_vars

-----------------------------------------------------------------------------
(***************************************************************************)
(* Merger and cursor: the merger reads a sorted postings file line by      *)
(* line; when it is done a PostingList is opened on one of the terms and   *)
(* driven with next() and nextGEQ().                                       *)
(***************************************************************************)
\* posting lists of up to MaxBlocks full blocks and one posting are written
MaxBlocks == 2

\* docID and tf patterns: the first docID, two alternating gaps and two
\* alternating frequencies (codes of one, two and three bytes)
SmallPattern == [start |-> 0, gapA |-> 1, gapB |-> 200, tfA |-> 1, tfB |-> 130]

LargePattern == [start |-> 70000, gapA |-> 20000, gapB |-> 7, tfA |-> 3, tfB |-> 20000]

\* the lists written for term "m": one posting, exactly one block, one
\* block and one posting, and one posting more than MaxBlocks blocks
ListShapes ==
    { [n |-> 1, p |-> SmallPattern],
      [n |-> 1, p |-> LargePattern],
      [n |-> BLOCK_SIZE, p |-> SmallPattern],
      [n |-> BLOCK_SIZE, p |-> LargePattern],
      [n |-> BLOCK_SIZE + 1, p |-> SmallPattern],
      [n |-> MaxBlocks * BLOCK_SIZE + 1, p |-> LargePattern] }

Row(term, docID, tf) == [term |-> term, docID |-> U32(docID), tf |-> U32(tf)]

\* the rows of a term with n postings following pattern p
GenRows(term, n, p) ==
    [i \in 1..n |->
        Row(term,
            p.start + ((i - 1) \div 2) * (p.gapA + p.gapB) + ((i - 1) % 2) * p.gapA,
            IF (i - 1) % 2 = 0 THEN p.tfA ELSE p.tfB)]

\* the sorted inputs: term "m" between a term before it and a term after it
\* a list of six postings with gaps of every size up to 88
ExampleRows ==
    <<Row("m", 3, 1), Row("m", 9, 2), Row("m", 17, 1), Row("m", 40, 3),
      Row("m", 128, 1), Row("m", 200, 2)>>

IndexInputs ==
    { <<Row("a", 3, 1), Row("a", 9, 2), Row("a", 200, 128)>>
        \o rows
        \o <<Row("z", 0, 1), Row("z", 1, 1)>> :
      rows \in {GenRows("m", shape.n, shape.p) : shape \in ListShapes} \cup {ExampleRows} }

IndexInit ==
    /\ vb = VbIdle
    /\ inFile \in IndexInputs
    /\ mg = MergerConstructed
    /\ pl = NewPostingList
    /\ walk = NoWalk
    /\ qe = QeIdle
    /\ ws = WsIdle
    /\ fsys = AllOpen
    /\ ix = IxIdle

\* the postings of a term in the merger's input, in input order
TermPostings(term) == SelectSeq(inFile, LAMBDA r : r.term = term)

\* the targets tried on a cursor over the postings ps: behind the cursor,
\* just ahead of it, the last docID of the list and one past it, and two
\* fixed ones
Targets(ps, c) ==
    {U32Zero, U32Add(c.currentDocID, U32(1)), U32Add(c.currentDocID, U32(2)),
     ps[Len(ps)].docID, U32Add(ps[Len(ps)].docID, U32(1)), U32(20), U32(1000)}

\* lexicon.find(term, meta) and list.open(meta, indexDir)
CursorOpen ==
    /\ mg.pc = "done"
    /\ walk.op = "none"
    /\ \E term \in DOMAIN Lexicon(mg) :
          LET r == open(NewPostingList, Lexicon(mg)[term], PostingFiles(mg))
          IN  /\ pl' = r.c
              /\ walk' = [NoWalk EXCEPT !.term = term, !.op = "open", !.ret = r.ret,
                                        !.status = r.status,
                                        !.n = IF r.ret THEN 1 ELSE 0,
                                        !.sum = IF r.ret THEN ToNat(freq(r.c)) ELSE 0]
    /\ UNCHANGED <<vb, inFile, mg, qe, ws, fsys, ix>>

\* list.next()
CursorNext ==
    /\ walk.op \in {"open", "next"}
    /\ walk.status = "ok"
    /\ LET r == next(pl, PostingFiles(mg))
       IN  /\ pl' = r.c
           /\ walk' = [walk EXCEPT !.op = "next", !.ret = r.ret, !.status = r.status,
                                   !.n = IF r.ret THEN @ + 1 ELSE @,
                                   !.sum = IF r.ret THEN @ + ToNat(freq(r.c)) ELSE @]
    /\ UNCHANGED <<vb, inFile, mg, qe, ws, fsys, ix>>

\* list.nextGEQ(target).  nextGEQ moves the cursor by calling next(), so
\* open() and next() alone reach every state a cursor can be in; nextGEQ is
\* tried on each of them and the walk ends with it.
CursorNextGEQ ==
    /\ walk.op \in {"open", "next"}
    /\ walk.status = "ok"
    /\ \E target \in Targets(TermPostings(walk.term), pl) :
          LET r == nextGEQ(pl, target, PostingFiles(mg))
          IN  /\ pl' = r.c
              /\ walk' = [walk EXCEPT !.op = "nextGEQ", !.ret = r.ret,
                                      !.status = r.status, !.target = target,
                                      !.wasValid = valid(pl)]
    /\ UNCHANGED <<vb, inFile, mg, qe, ws, fsys, ix>>

IndexNext ==
    \/ MergerLine /\ UNCHANGED <<vb, inFile, pl, walk, qe, ws, fsys, ix>>
    \/ MergerEnd /\ UNCHANGED <<vb, inFile, pl, walk, qe, ws, fsys, ix>>
    \/ CursorOpen
    \/ CursorNext
    \/ CursorNextGEQ

SpecIndex == IndexInit /\ [][IndexNext]_vars

-----------------------------------------------------------------------------
(***************************************************************************)
(* The merger as a program: main() constructs the IndexMerger and calls    *)
(* process() on a text file whose lines need not be well formed, with      *)
(* output files that need not open.                                        *)
(***************************************************************************)
\* a field of a line for std::stoul: whether it starts with a number, and
\* the number it starts with (what follows the digits is not looked at)
Field(isNumber, value) == [isNumber |-> isNumber, value |-> U32(value)]

\* std::stoul(field): the value, or std::invalid_argument thrown
Stoul(field) == [thrown |-> ~field.isNumber, value |-> field.value]

\* a line: a comment or empty line, or a text with some tabs in it
Line(term, tabs, docID, tf) ==
    [skip |-> FALSE, term |-> term, tabs |-> tabs, docID |-> docID, tf |-> tf]

CommentLine == [Line("#", 0, Field(FALSE, 0), Field(FALSE, 0)) EXCEPT !.skip = TRUE]

GoodLine(term, docID, tf) == Line(term, 2, Field(TRUE, docID), Field(TRUE, tf))

\* the row a line that parses stands for
RowOf(line) == [term |-> line.term, docID |-> line.docID.value, tf |-> line.tf.value]

\* one pass of the getline loop of process() on any line: nothing catches
\* what std::stoul throws, so the exception ends the program
\* (std::terminate)
ReadLine(m, line) ==
    IF line.skip THEN [m EXCEPT !.line = @ + 1]
    ELSE IF line.tabs < 2 THEN [m EXCEPT !.warnings = @ + 1, !.line = @ + 1]
    ELSE IF Stoul(line.docID).thrown \/ Stoul(line.tf).thrown
    THEN [m EXCEPT !.pc = "terminated"]
    ELSE ProcessLine(m, RowOf(line))

\* IndexMerger::IndexMerger when the files of closed cannot be opened
Construct(closed) ==
    IF CtorFiles \cap closed # {}
    THEN [MergerConstructed EXCEPT !.pc = "exit1", !.opened = CtorFiles \ closed]
    ELSE MergerConstructed

\* main() before the IndexMerger is constructed
MergerMain == [MergerConstructed EXCEPT !.pc = "main", !.opened = {}]

\* a tf so large that three of them pass 2^32
BigTf == 1500000000

\* the lines a sorted input is drawn from, with one line of term "ab" in
\* the middle that is well formed or malformed in one of the ways tried
MiddleLines ==
    { GoodLine("ab", 1, 2),
      CommentLine,
      Line("ab", 1, Field(TRUE, 1), Field(TRUE, 2)),
      Line("ab", 2, Field(FALSE, 0), Field(TRUE, 2)),
      Line("ab", 2, Field(TRUE, 1), Field(FALSE, 0)) }

MasterLines(middle) ==
    <<GoodLine("a", 0, 3), GoodLine("a", 1, 2), middle,
      GoodLine("b", 0, 1), GoodLine("c", 1, 4), GoodLine("c", 2, 1)>>

\* the lines of master at the positions of S, in order
RECURSIVE Pick(_, _, _)
Pick(master, S, i) ==
    IF i > Len(master) THEN <<>>
    ELSE IF i \in S THEN <<master[i]>> \o Pick(master, S, i + 1)
    ELSE Pick(master, S, i + 1)

\* one document in three terms with a large tf each
BigLines ==
    <<GoodLine("a", 0, BigTf), GoodLine("b", 0, BigTf), GoodLine("c", 0, BigTf),
      GoodLine("c", 400, 1)>>

\* sorted by term and then by docID, with one row twice
RepeatedLines ==
    <<GoodLine("a", 0, 3), GoodLine("a", 1, 2), GoodLine("a", 1, 2), GoodLine("b", 0, 1)>>

MergeInputs ==
    {Pick(MasterLines(middle), S, 1) : middle \in MiddleLines, S \in SUBSET (1..6)}
        \cup {BigLines, RepeatedLines}

\* at most one of the five output files cannot be opened
MergeFileSystems == {{}} \cup {{f} : f \in CtorFiles \cup StatsFiles}

MergeInit ==
    /\ vb = VbIdle
    /\ inFile \in MergeInputs
    /\ fsys \in MergeFileSystems
    /\ ix = IxIdle
    /\ mg = MergerMain
    /\ pl = NewPostingList
    /\ walk = NoWalk
    /\ qe = QeIdle
    /\ ws = WsIdle

\* IndexMerger merger(inputFile, outputDir);
MergeConstruct ==
    /\ mg.pc = "main"
    /\ mg' = Construct(fsys)

\* the next line of the input is read
MergeLine ==
    /\ mg.pc = "reading"
    /\ mg.line < Len(inFile)
    /\ mg' = ReadLine(mg, inFile[mg.line + 1])

\* the end of the input: the last list and the statistics are written and
\* main() returns 0
MergeEnd ==
    /\ mg.pc = "reading"
    /\ mg.line = Len(inFile)
    /\ mg' = ProcessEndWith(mg, fsys)

MergeNext ==
    /\ \/ MergeConstruct
       \/ MergeLine
       \/ MergeEnd
    /\ UNCHANGED <<vb, inFile, pl, walk, qe, ws, fsys, ix>>

SpecMerge == MergeInit /\ [][MergeNext]_vars

-----------------------------------------------------------------------------
(***************************************************************************)
(* The indexer and the merger one after the other: IndexBuilder reads the  *)
(* collection line by line and writes a row for every term of every        *)
(* document, the rows are sorted by term and docID, and the merger is run  *)
(* on the sorted file.  The parts the rows are written to are sorted       *)
(* together and stand here as one file.                                    *)
(***************************************************************************)
\* collections of up to MaxDocs lines are indexed
MaxDocs == 3

\* a line of the collection: whether it has a tab, and the tokens that
\* tokenize_words gives for what follows the tab
CollectionLine(hasTab, tokens) == [hasTab |-> hasTab, tokens |-> tokens]

\* a line without a tab, a document without a token, and documents of one
\* term, of two terms and of a term that comes twice
CollectionLines ==
    { CollectionLine(FALSE, <<>>),
      CollectionLine(TRUE, <<>>),
      CollectionLine(TRUE, <<"a">>),
      CollectionLine(TRUE, <<"a", "b">>),
      CollectionLine(TRUE, <<"b", "a", "b">>) }

Collections == UNION {[1..n -> CollectionLines] : n \in 1..MaxDocs}

\* IndexBuilder(outputDir, partBytes) on a collection
IndexBuilderConstructed(collection) ==
    [pc |-> "indexing", collection |-> collection, line |-> 0,
     currentDocID |-> U32Zero, docTableFile |-> <<>>, postingsOut |-> <<>>,
     docContentFile |-> 0, docOffsetFile |-> <<>>]

\* termFreq[token]++ over the tokens of a document
TermFreq(tokens) ==
    [t \in {tokens[i] : i \in 1..Len(tokens)} |->
        Cardinality({i \in 1..Len(tokens) : tokens[i] = t})]

\* the orders in which the loop over an unordered_map may meet its keys
KeyOrders(keys) ==
    {o \in [1..Cardinality(keys) -> keys] : \A i, j \in DOMAIN o : i # j => o[i] # o[j]}

\* the length of the content of a document: its tokens, of one character
\* each, with a blank between two of them
ContentLength(tokens) == IF tokens = <<>> THEN 0 ELSE 2 * Len(tokens) - 1

\* the variant of parseDocument that passes over a document without a token
parseDocumentNonEmpty(b, tokens, order) ==
    IF tokens = <<>> THEN b
    ELSE [b EXCEPT !.docTableFile = Append(@, b.currentDocID),
                   !.docContentFile = @ + ContentLength(tokens) + 1,
                   !.docOffsetFile = Append(@, [offset |-> b.docContentFile,
                                                length |-> ContentLength(tokens)]),
                   !.postingsOut = @ \o [i \in DOMAIN order |->
                                           [term |-> order[i], docID |-> b.currentDocID,
                                            tf |-> U32(TermFreq(tokens)[order[i]])]],
                   !.currentDocID = U32Add(@, U32(1))]

\* parseDocument(docName, content): a line of doc_table.txt, the content and
\* a line end in doc_content.bin, its offset and length in doc_offset.bin, a
\* row for every key of termFreq in the order the map gives them,
\* currentDocID++.  docContentFile is the number of bytes written to it, and
\* docTableFile the docID column of its lines.
parseDocument(b, tokens, order) ==
    [b EXCEPT !.docTableFile = Append(@, b.currentDocID),
              !.docContentFile = @ + ContentLength(tokens) + 1,
              !.docOffsetFile = Append(@, [offset |-> b.docContentFile,
                                           length |-> ContentLength(tokens)]),
              !.postingsOut = @ \o [i \in DOMAIN order |->
                                      [term |-> order[i], docID |-> b.currentDocID,
                                       tf |-> U32(TermFreq(tokens)[order[i]])]],
              !.currentDocID = U32Add(@, U32(1))]

\* one pass of the getline loop of processMSMARCO: a line without a tab is
\* passed over
IndexLine(b, line, order) ==
    IF ~line.hasTab THEN [b EXCEPT !.line = @ + 1]
    ELSE [parseDocument(b, line.tokens, order) EXCEPT !.line = @ + 1]

\* finalize()
finalize(b) == [b EXCEPT !.pc = "finalized"]

\* msort -k 1,1 -k 2,2n: the order of two rows
RowBefore(r, q) ==
    \/ r.term # q.term /\ r.term = "a"
    \/ r.term = q.term /\ U32Le(r.docID, q.docID)

\* the rows of S sorted by term and then by docID
RECURSIVE Sorted(_)
Sorted(S) ==
    IF S = {} THEN <<>>
    ELSE LET first == CHOOSE r \in S : \A q \in S : RowBefore(r, q)
         IN  <<GoodLine(first.term, ToNat(first.docID), ToNat(first.tf))>>
                 \o Sorted(S \ {first})

Msorted(rows) == Sorted({rows[i] : i \in 1..Len(rows)})

\* the merger before it is started
MergerIdle == [MergerMain EXCEPT !.pc = "idle"]

BuildInit ==
    /\ vb = VbIdle
    /\ inFile = <<>>
    /\ mg = MergerIdle
    /\ pl = NewPostingList
    /\ walk = NoWalk
    /\ qe = QeIdle
    /\ ws = WsIdle
    /\ fsys = AllOpen
    /\ \E collection \in Collections : ix = IndexBuilderConstructed(collection)

\* the next line of the collection is read
BuildLine ==
    /\ ix.pc = "indexing"
    /\ ix.line < Len(ix.collection)
    /\ \E order \in KeyOrders(DOMAIN TermFreq(ix.collection[ix.line + 1].tokens)) :
          ix' = IndexLine(ix, ix.collection[ix.line + 1], order)
    /\ UNCHANGED <<vb, inFile, mg, pl, walk, qe, ws, fsys>>

\* the end of the collection
BuildFinalize ==
    /\ ix.pc = "indexing"
    /\ ix.line = Len(ix.collection)
    /\ ix' = finalize(ix)
    /\ UNCHANGED <<vb, inFile, mg, pl, walk, qe, ws, fsys>>

\* the rows are sorted into the merger's input and the merger is started
BuildSort ==
    /\ ix.pc = "finalized"
    /\ ix' = [ix EXCEPT !.pc = "sorted"]
    /\ inFile' = Msorted(ix.postingsOut)
    /\ mg' = MergerMain
    /\ UNCHANGED <<vb, pl, walk, qe, ws, fsys>>

BuildNext ==
    \/ BuildLine
    \/ BuildFinalize
    \/ BuildSort
    \/ MergeConstruct /\ UNCHANGED <<vb, inFile, pl, walk, qe, ws, fsys, ix>>
    \/ MergeLine /\ UNCHANGED <<vb, inFile, pl, walk, qe, ws, fsys, ix>>
    \/ MergeEnd /\ UNCHANGED <<vb, inFile, pl, walk, qe, ws, fsys, ix>>

SpecBuild == BuildInit /\ [][BuildNext]_vars

-----------------------------------------------------------------------------
(***************************************************************************)
(* bm25.hpp.  A double is an integer multiple of 1 / Scale; every division *)
(* rounds down.                                                            *)
(***************************************************************************)
Scale == 10000

\* bm25::Params(): k1 = 0.9 and b = 0.4, in tenths
Params == [k1 |-> 9, b |-> 4]

\* 2 * (z + z^3 / 3 + z^5 / 5 + ...) term by term; pow is z^k
RECURSIVE LogSeries(_, _, _, _)
LogSeries(z, pow, k, acc) ==
    IF pow = 0 THEN acc
    ELSE LogSeries(z, (((pow * z) \div Scale) * z) \div Scale, k + 2,
                   acc + (2 * pow) \div k)

\* std::log(p / q) for q <= p < 2q, with z = (p - q) / (p + q)
LogNear(p, q) ==
    LogSeries(((p - q) * Scale) \div (p + q), ((p - q) * Scale) \div (p + q), 1, 0)

\* std::log(p / q) for 0 < q <= p
RECURSIVE Log(_, _)
Log(p, q) == IF p >= 2 * q THEN LogNear(2, 1) + Log(p, 2 * q) ELSE LogNear(p, q)

\* bm25::idf(N, df): log((N - df + 0.5) / (df + 0.5) + 1.0), for df <= N
idf(N, df) == IF df = 0 \/ N = 0 THEN 0 ELSE Log(2 * N + 2, 2 * df + 1)

\* the digits of a quotient taken one by one, k of them after the point
RECURSIVE LongDiv(_, _, _, _)
LongDiv(q, r, b, k) ==
    IF k <= 0 THEN q ELSE LongDiv(q * 10 + (r * 10) \div b, (r * 10) % b, b, k - 1)

\* dl_d / avgdl in thousandths
LengthRatio(dl, avgdl) ==
    LongDiv(dl \div avgdl.mant, dl % avgdl.mant, avgdl.mant, 3 - avgdl.exp)

\* numerator / denominator, for the ratio dl_d / avgdl in thousandths
TfPart(tf, ratio, params) ==
    (tf * (params.k1 + 10) * 100 * Scale)
        \div (1000 * tf + (params.k1 * ((10 - params.b) * 1000 + params.b * ratio)) \div 100)

\* bm25::score(idf_val, tf, dl, avgdl, params)
score(idf_val, tf, dl, avgdl, params) ==
    IF tf = U32Zero \/ dl = U32Zero \/ avgdl = AvgdlZero THEN 0
    ELSE (idf_val * TfPart(ToNat(tf), LengthRatio(ToNat(dl), avgdl), params)) \div Scale

-----------------------------------------------------------------------------
(***************************************************************************)
(* Stats, DocLen and the QueryEvaluator.                                   *)
(*                                                                         *)
(* q is the evaluator inside processQuery: the arguments, the locals       *)
(* metas, lists, idfs, topK and results, and status, which is "ok" until a *)
(* call on a posting list fails to return.  offered lists the docIDs       *)
(* scored and offered to topK so far, iter counts the passes of the DAAT   *)
(* loop.                                                                   *)
(*                                                                         *)
(* There are two evaluators.  The one of include/querier.hpp gives every   *)
(* PostingList its own two streams.  The earlier one of src/querier.cpp    *)
(* (evaluateAND(queryTerms, k), which looks the terms up itself) hands     *)
(* every PostingList pointers to its own pair of streams, docidsFile and   *)
(* freqsFile, kept here in shared; its PostingList is the earlier one of   *)
(* utils.hpp, which is the later one but for the streams it reads and the  *)
(* test of good() after the first decode of a block (a decode that returns *)
(* leaves the stream good).                                                *)
(***************************************************************************)
Later == "querier.hpp"

Earlier == "querier.cpp"

\* Stats::load(path): doc_count and avgdl as read back from stats.txt
Stats(m) == [doc_count |-> m.statsFile.doc_count, avgdl |-> m.statsFile.avgdl]

\* DocLen::len(docID)
DocLenLen(lengths, docID) ==
    IF IsSmall(docID) /\ ToNat(docID) < lengths.size
    THEN DocLengthAt(lengths, ToNat(docID))
    ELSE U32Zero

\* what the evaluator is constructed on: the lexicon, the posting files,
\* the statistics and the document lengths of an index directory
IndexDir(m) ==
    [lexicon |-> Lexicon(m), files |-> PostingFiles(m), stats |-> Stats(m),
     docLen |-> m.docLenFile]

QueryResult(d, s) == [docID |-> d, score |-> s]

\* the evaluator on entry to processQuery(queryTerms, mode, k)
NewQuery(queryTerms, mode, k, variant) ==
    [pc |-> "start", queryTerms |-> queryTerms, mode |-> mode, k |-> k,
     variant |-> variant, metas |-> <<>>, lists |-> <<>>, idfs |-> <<>>,
     shared |-> [docids |-> IStream, freqs |-> IStream],
     topK |-> <<>>, results |-> <<>>, offered |-> <<>>, iter |-> 0,
     status |-> "ok", ret |-> FALSE, allMatch |-> TRUE]

\* A plausible slip: every list reads through the streams of the
\* evaluator, as the lists of the earlier evaluator do.
AttachedShared(q, c) ==
    [c EXCEPT !.docidsFile = q.shared.docids, !.freqsFile = q.shared.freqs]

\* the PostingList with the streams it reads through
Attached(q, c) ==
    IF q.variant = Earlier
    THEN [c EXCEPT !.docidsFile = q.shared.docids, !.freqsFile = q.shared.freqs]
    ELSE c

\* the streams of the evaluator after a call on a PostingList left it as c
SharedAfter(q, c) ==
    IF q.variant = Earlier
    THEN [docids |-> c.docidsFile, freqs |-> c.freqsFile]
    ELSE q.shared

\* the evaluator after a call on lists[i] that gave r
Called(q, i, r) ==
    [q EXCEPT !.lists[i] = r.c, !.ret = r.ret, !.status = r.status,
              !.shared = SharedAfter(q, r.c)]

\* lists[i].next()
ListNext(q, i, dir) ==
    IF q.status # "ok" THEN q
    ELSE Called(q, i, next(Attached(q, q.lists[i]), dir.files))

\* lists[i].nextGEQ(target)
ListNextGEQ(q, i, target, dir) ==
    IF q.status # "ok" THEN q
    ELSE Called(q, i, nextGEQ(Attached(q, q.lists[i]), target, dir.files))

\* the body of  if (list.open(...))  given what open returned (r)
SetupOpened(q, meta, r, dir) ==
    IF r.status # "ok"
    THEN [q EXCEPT !.status = r.status, !.shared = SharedAfter(q, r.c)]
    ELSE IF r.ret
    THEN [q EXCEPT !.metas = Append(@, meta),
                   !.lists = Append(@, r.c),
                   !.idfs = Append(@, idf(dir.stats.doc_count, meta.df)),
                   !.shared = SharedAfter(q, r.c)]
    ELSE [q EXCEPT !.shared = SharedAfter(q, r.c)]

\* A plausible slip: a term that is not in the lexicon keeps its place in
\* the query, as a list that was never opened.
SetupTermKept(q, term, dir) ==
    IF LexiconFind(dir.lexicon, term)
    THEN SetupOpened(q, dir.lexicon[term],
                     open(NewPostingList, dir.lexicon[term], dir.files), dir)
    ELSE [q EXCEPT !.metas = Append(@, [df |-> 0, cf |-> 0, docids_offset |-> 0,
                                        freqs_offset |-> 0, blocks |-> 0]),
                   !.lists = Append(@, NewPostingList),
                   !.idfs = Append(@, 0)]

\* the body of the loop over queryTerms for one term
SetupTerm(q, term, dir) ==
    IF LexiconFind(dir.lexicon, term)
    THEN SetupOpened(q, dir.lexicon[term],
                     open(NewPostingList, dir.lexicon[term], dir.files), dir)
    ELSE q

\* the loop over queryTerms from the i-th term on
RECURSIVE SetupLoop(_, _, _)
SetupLoop(q, i, dir) ==
    IF i > Len(q.queryTerms) \/ q.status # "ok" THEN q
    ELSE SetupLoop(SetupTerm(q, q.queryTerms[i], dir), i + 1, dir)

\* processQuery up to the call of evaluateAND or evaluateOR, given what the
\* loop over queryTerms left (q)
SetupDone(q) ==
    IF q.status # "ok" THEN [q EXCEPT !.pc = "hung"]
    ELSE IF q.lists = <<>> THEN [q EXCEPT !.pc = "done"]
    ELSE IF q.mode = "and" THEN [q EXCEPT !.pc = "and"]
    ELSE [q EXCEPT !.pc = "or"]

\* priority_queue<QueryResult>::top(): an element that none is below, that
\* is one of least score; which one of several is up to the heap
TopIndices(topK) ==
    {i \in 1..Len(topK) : \A j \in 1..Len(topK) : topK[j].score >= topK[i].score}

\* the choices for top(), 0 standing for an empty heap
TopChoices(topK) == IF topK = <<>> THEN {0} ELSE TopIndices(topK)

\* pop() of the element top() gave
Pop(topK, top) == SubSeq(topK, 1, top - 1) \o SubSeq(topK, top + 1, Len(topK))

\* topK.top() of an empty heap is undefined.  What the build makes of it is
\* one of: the read gives a score that the new one is not above, and the
\* heap is left alone (TopNotBelow); the read gives a score that the new one
\* is above, and pop() and push() leave the heap with the new result
\* (TopBelow); the process is stopped (TopFault).
TopNotBelow == 0

TopBelow == 0 - 1

TopFault == 0 - 2

\* update Top-K; top is the element top() gives or, for an empty heap, what
\* comes of the read
UpdateTopK(topK, k, docID, s, top) ==
    IF Len(topK) < k THEN Append(topK, QueryResult(docID, s))
    ELSE IF topK = <<>>
    THEN IF top = TopBelow THEN <<QueryResult(docID, s)>> ELSE topK
    ELSE IF s > topK[top].score THEN Append(Pop(topK, top), QueryResult(docID, s))
    ELSE topK

\* A plausible slip: the comparison with minDoc left out, so that the last
\* valid list gives the candidate.
RECURSIVE OrMinDocLast(_, _, _)
OrMinDocLast(lists, i, minDoc) ==
    IF i > Len(lists) THEN minDoc
    ELSE IF valid(lists[i]) THEN OrMinDocLast(lists, i + 1, doc(lists[i]))
    ELSE OrMinDocLast(lists, i + 1, minDoc)

\* evaluateOR: the loop that finds minDoc, from lists[i] on
RECURSIVE OrMinDoc(_, _, _)
OrMinDoc(lists, i, minDoc) ==
    IF i > Len(lists) THEN minDoc
    ELSE IF valid(lists[i]) /\ U32Lt(doc(lists[i]), minDoc)
    THEN OrMinDoc(lists, i + 1, doc(lists[i]))
    ELSE OrMinDoc(lists, i + 1, minDoc)

\* A plausible slip: every valid list scored, at minDoc or not.
OrMatchesValid(lists, i, minDoc) == valid(lists[i])

\* A plausible slip: doc() compared without the test of valid().
OrMatchesUnchecked(lists, i, minDoc) == doc(lists[i]) = minDoc

\* lists[i].valid() && lists[i].doc() == minDoc
OrMatches(lists, i, minDoc) == valid(lists[i]) /\ doc(lists[i]) = minDoc

\* evaluateOR: the scoring loop from lists[i] on; s is score
RECURSIVE OrScoreLoop(_, _, _, _, _)
OrScoreLoop(e, i, minDoc, dl, dir) ==
    IF i > Len(e.q.lists) \/ e.q.status # "ok" THEN e
    ELSE IF OrMatches(e.q.lists, i, minDoc)
    THEN OrScoreLoop([s |-> e.s + score(e.q.idfs[i], freq(e.q.lists[i]), dl,
                                        dir.stats.avgdl, Params),
                      q |-> ListNext(e.q, i, dir)],
                     i + 1, minDoc, dl, dir)
    ELSE OrScoreLoop(e, i + 1, minDoc, dl, dir)

\* evaluateOR: the pass from the update of topK on
OrScored(e, minDoc, top) ==
    IF e.q.status # "ok" THEN [e.q EXCEPT !.pc = "hung"]
    ELSE [e.q EXCEPT !.topK = UpdateTopK(@, e.q.k, minDoc, e.s, top),
                     !.offered = Append(@, minDoc),
                     !.iter = @ + 1]

\* evaluateOR: the pass from  if (minDoc == UINT32_MAX) break  on
OrFound(q, minDoc, top, dir) ==
    IF minDoc = U32Max THEN [q EXCEPT !.pc = "drain", !.iter = @ + 1]
    ELSE OrScored(OrScoreLoop([s |-> 0, q |-> q], 1, minDoc,
                              DocLenLen(dir.docLen, minDoc), dir),
                  minDoc, top)

\* evaluateOR: one pass of  while (true)
OrPass(q, top, dir) == OrFound(q, OrMinDoc(q.lists, 1, U32Max), top, dir)

\* evaluateAND: the loop that finds maxDoc, from lists[i] on
RECURSIVE AndMaxDoc(_, _, _)
AndMaxDoc(lists, i, maxDoc) ==
    IF i > Len(lists) THEN [allValid |-> TRUE, maxDoc |-> maxDoc]
    ELSE IF ~valid(lists[i]) THEN [allValid |-> FALSE, maxDoc |-> maxDoc]
    ELSE IF U32Lt(maxDoc, doc(lists[i])) THEN AndMaxDoc(lists, i + 1, doc(lists[i]))
    ELSE AndMaxDoc(lists, i + 1, maxDoc)

\* evaluateAND: the loop that pushes all lists to maxDoc, from lists[i] on
RECURSIVE AndPushLoop(_, _, _, _)

\* if (lists[i].doc() != maxDoc) { allMatch = false; break; }
AndPushCheck(q, i, maxDoc, dir) ==
    IF doc(q.lists[i]) # maxDoc THEN [q EXCEPT !.allMatch = FALSE]
    ELSE AndPushLoop(q, i + 1, maxDoc, dir)

\* if (!lists[i].nextGEQ(maxDoc)) { allMatch = false; break; }  after the call
AndPushSought(q, i, maxDoc, dir) ==
    IF q.status # "ok" THEN q
    ELSE IF ~q.ret THEN [q EXCEPT !.allMatch = FALSE]
    ELSE AndPushCheck(q, i, maxDoc, dir)

AndPushLoop(q, i, maxDoc, dir) ==
    IF i > Len(q.lists) THEN q
    ELSE IF U32Lt(doc(q.lists[i]), maxDoc)
    THEN AndPushSought(ListNextGEQ(q, i, maxDoc, dir), i, maxDoc, dir)
    ELSE AndPushCheck(q, i, maxDoc, dir)

\* for (auto& l : lists) l.nextGEQ(maxDoc + 1);  from lists[i] on
RECURSIVE AndSkipLoop(_, _, _, _)
AndSkipLoop(q, i, target, dir) ==
    IF i > Len(q.lists) \/ q.status # "ok" THEN q
    ELSE AndSkipLoop(ListNextGEQ(q, i, target, dir), i + 1, target, dir)

\* the pass when the lists do not all match: the later evaluator moves
\* every list to maxDoc + 1, the earlier one goes round at once
AndMismatch(q, maxDoc, dir) ==
    IF q.variant = Later
    THEN AndSkipLoop(q, 1, U32Add(maxDoc, U32(1)), dir)
    ELSE q

\* evaluateAND: the scoring loop from lists[i] on
RECURSIVE AndScoreLoop(_, _, _, _, _)
AndScoreLoop(q, i, s, dl, dir) ==
    IF i > Len(q.lists) THEN s
    ELSE AndScoreLoop(q, i + 1,
                      s + score(q.idfs[i], freq(q.lists[i]), dl, dir.stats.avgdl, Params),
                      dl, dir)

\* for (i...) lists[i].next();  from lists[i] on
RECURSIVE AndNextLoop(_, _, _)
AndNextLoop(q, i, dir) ==
    IF i > Len(q.lists) \/ q.status # "ok" THEN q
    ELSE AndNextLoop(ListNext(q, i, dir), i + 1, dir)

\* A plausible slip: the length looked up for the document after maxDoc.
AndDocLenNext(lengths, maxDoc) == DocLenLen(lengths, U32Add(maxDoc, U32(1)))

\* uint32_t dl = docLen.len(maxDoc);
AndDocLen(lengths, maxDoc) == DocLenLen(lengths, maxDoc)

\* the pass when all lists are on maxDoc
AndMatch(q, maxDoc, top, dir) ==
    AndNextLoop([q EXCEPT !.topK = UpdateTopK(@, q.k, maxDoc,
                                        AndScoreLoop(q, 1, 0,
                                                     AndDocLen(dir.docLen, maxDoc), dir),
                                        top),
                          !.offered = Append(@, maxDoc)],
                1, dir)

\* the end of a pass that goes round again
AndRound(q) ==
    IF q.status # "ok" THEN [q EXCEPT !.pc = "hung"] ELSE [q EXCEPT !.iter = @ + 1]

\* evaluateAND: the pass from  if (!allMatch)  on
AndPushed(q, maxDoc, top, dir) ==
    IF q.status # "ok" THEN [q EXCEPT !.pc = "hung"]
    ELSE IF ~q.allMatch THEN AndRound(AndMismatch(q, maxDoc, dir))
    ELSE AndRound(AndMatch(q, maxDoc, top, dir))

\* evaluateAND: the pass from  if (!allValid) break  on
AndFound(q, m, top, dir) ==
    IF ~m.allValid THEN [q EXCEPT !.pc = "drain", !.iter = @ + 1]
    ELSE AndPushed(AndPushLoop([q EXCEPT !.allMatch = TRUE], 1, m.maxDoc, dir),
                   m.maxDoc, top, dir)

\* evaluateAND: one pass of  while (true)
AndPass(q, top, dir) == AndFound(q, AndMaxDoc(q.lists, 1, U32Zero), top, dir)

\* results.push_back(topK.top()); topK.pop();
DrainPop(q, top) ==
    [q EXCEPT !.results = Append(@, q.topK[top]), !.topK = Pop(@, top)]

\* A plausible slip: the results left in the order the heap gave them.
ReverseForgotten(s) == s

\* std::reverse(results.begin(), results.end())
Reverse(s) == [i \in 1..Len(s) |-> s[Len(s) + 1 - i]]

\* passes of evaluateOR run one after another, n of them at most, with
\* top() giving the first of the least elements
RECURSIVE OrPasses(_, _, _)
OrPasses(q, dir, n) ==
    IF n = 0 \/ q.pc # "or" THEN q
    ELSE IF n = 1 THEN OrPass(q, CHOOSE top \in TopChoices(q.topK) : TRUE, dir)
    ELSE LET first == OrPasses(q, dir, n \div 2)
         IN  IF first.pc # "or" THEN first
             ELSE OrPasses(first, dir, n - n \div 2)

\* processQuery(queryTerms, "or", k) run up to the loop that empties topK;
\* rows bounds the passes (every pass but the last moves a list on)
processQueryOr(queryTerms, k, variant, dir, rows) ==
    OrPasses(SetupDone(SetupLoop(NewQuery(queryTerms, "or", k, variant), 1, dir)),
             dir, rows + 1)

-----------------------------------------------------------------------------
(***************************************************************************)
(* Queries: an index is written by the merger, then one query is           *)
(* evaluated on it, a pass of the DAAT loop per step.                      *)
(***************************************************************************)
\* the documents of the small indexes are 0 .. MaxDocID
MaxDocID == 3

\* the frequency of a term in a document
TfOf(term, d) == IF term = "a" THEN 1 + (d % 3) ELSE 3 - 2 * (d % 2)

\* the rows of a term for the documents of S, which are at most max
TermRows(term, S, max) ==
    LET docs == SelectSeq([i \in 1..(max + 1) |-> i - 1], LAMBDA d : d \in S)
    IN  [i \in 1..Len(docs) |-> Row(term, docs[i], TfOf(term, docs[i]))]

\* the documents of term "a" in the small indexes
DocSetsA ==
    {{}, {0}, {MaxDocID}, 0..MaxDocID, {d \in 0..MaxDocID : d % 2 = 0},
     1..(MaxDocID - 1)}

\* the small indexes: terms "a" and "b", each in any of its document sets
\* or in none (but not both in none: Stats::load fails on no documents)
SmallIndexes ==
    {TermRows("a", A, MaxDocID) \o TermRows("b", B, MaxDocID) :
        <<A, B>> \in {ab \in DocSetsA \X SUBSET (0..MaxDocID) : ab[1] \cup ab[2] # {}}}

\* an index whose first list has a second block: "a" in the documents
\* 0 .. BLOCK_SIZE and "b", the last term of the files, in the last of them
LongIndex ==
    TermRows("a", 0..BLOCK_SIZE, BLOCK_SIZE) \o TermRows("b", {BLOCK_SIZE}, BLOCK_SIZE)

QueryIndexes == SmallIndexes \cup {LongIndex}

\* the queries: one term, two terms in both orders, a term twice, and
\* term "c", which is in no index
Queries ==
    {<<"a">>, <<"a", "b">>, <<"b", "a">>, <<"b", "b">>, <<"a", "c", "b">>, <<"c">>}

KValues == {1, 2, MaxDocID + 1}

\* the calls of processQuery made on an index: both modes on the later
\* evaluator and AND on the earlier one; on the long index, the AND query
\* that reaches the second block
QueryCalls(rows) ==
    IF Len(rows) > BLOCK_SIZE
    THEN {NewQuery(<<"a", "b">>, "and", 1, v) : v \in {Later, Earlier}}
    ELSE {NewQuery(t, "or", k, Later) : t \in Queries, k \in KValues}
         \cup {NewQuery(t, "and", k, v) :
                 t \in Queries, k \in KValues, v \in {Later, Earlier}}

\* index files damaged after they were written: the block length at byte
\* at of postings.freqs.bin is one more than the merger wrote
Damaged(m, at) == [m EXCEPT !.freqsFile[at] = @ + 1]

\* the index the evaluator finds for an input: the one the merger wrote,
\* and, for the small index with "a" in every document and for the long
\* index, one in which the frequency file disagrees with the docID file on
\* the length of the first, resp. the second, block of "a"
IndexesFound(rows) ==
    IF Len(rows) > BLOCK_SIZE
    THEN {process(rows), Damaged(process(rows), BLOCK_SIZE + 3)}
    ELSE IF Len(SelectSeq(rows, LAMBDA r : r.term = "a")) = MaxDocID + 1
    THEN {process(rows), Damaged(process(rows), 1)}
    ELSE {process(rows)}

QueryInit ==
    /\ vb = VbIdle
    /\ pl = NewPostingList
    /\ walk = NoWalk
    /\ inFile \in QueryIndexes
    /\ mg \in IndexesFound(inFile)
    /\ qe \in QueryCalls(inFile)
    /\ ws = WsIdle
    /\ fsys = AllOpen
    /\ ix = IxIdle

\* processQuery from its entry to the call of evaluateAND or evaluateOR, or
\* to  return {}
QuerySetup ==
    /\ qe.pc = "start"
    /\ qe' = SetupDone(SetupLoop(qe, 1, IndexDir(mg)))

\* one pass of the loop of evaluateOR
QueryOrPass ==
    /\ qe.pc = "or"
    /\ \E top \in TopChoices(qe.topK) : qe' = OrPass(qe, top, IndexDir(mg))

\* one pass of the loop of evaluateAND
QueryAndPass ==
    /\ qe.pc = "and"
    /\ \E top \in TopChoices(qe.topK) : qe' = AndPass(qe, top, IndexDir(mg))

\* one pass of the loop that empties topK into results
QueryDrain ==
    /\ qe.pc = "drain"
    /\ qe.topK # <<>>
    /\ \E top \in TopIndices(qe.topK) : qe' = DrainPop(qe, top)

\* the results are reversed and returned
QueryReturn ==
    /\ qe.pc = "drain"
    /\ qe.topK = <<>>
    /\ qe' = [qe EXCEPT !.results = Reverse(@), !.pc = "done"]

QueryNext ==
    /\ QuerySetup \/ QueryOrPass \/ QueryAndPass \/ QueryDrain \/ QueryReturn
    /\ UNCHANGED <<vb, inFile, mg, pl, walk, ws, fsys, ix>>

SpecQuery == QueryInit /\ [][QueryNext]_vars

-----------------------------------------------------------------------------
(***************************************************************************)
(* The web server: the accept loop starts a detached thread per            *)
(* connection, and every thread runs handleClient on the one evaluator     *)
(* and the one DocContentFile of the server.  A thread takes a step at     *)
(* each point at which what it does can be seen by the others: taking and  *)
(* releasing evalMutex, writing and reading the evaluator's bm25Params,    *)
(* and seekg and read on contentFile, which no mutex guards.  The          *)
(* unsynchronised calls on contentFile are a data race; the steps below    *)
(* give the outcomes in which each call takes effect as a whole.           *)
(***************************************************************************)
MaxRequests == 2

Threads == {1, 2}

\* the doc-content file, and the (offset, length) of each document in it
ContentBytes == <<10, 11, 20, 21>>

Offsets == <<[offset |-> 0, length |-> 2], [offset |-> 2, length |-> 2]>>

\* offsets[docID]
OffsetOf(docID) == Offsets[docID + 1]

\* the value of the k parameter of a request: absent, or a text that is a
\* number or not
KString(empty, isNumber, value) == [empty |-> empty, isNumber |-> isNumber, value |-> value]

KStrings ==
    {KString(TRUE, FALSE, 0), KString(FALSE, TRUE, 1), KString(FALSE, TRUE, 0),
     KString(FALSE, TRUE, -1), KString(FALSE, FALSE, 0)}

\* std::stoi(kStr): the value, or std::invalid_argument thrown
Stoi(kStr) == [thrown |-> ~kStr.isNumber, value |-> kStr.value]

\* the k1 and b of a request, in tenths
WebParams == {Params, [k1 |-> 12, b |-> 7]}

\* a /search request: its parameters, and the documents its query matches,
\* best first
Requests ==
    [kStr : KStrings, params : WebParams, matches : {<<>>, <<0>>, <<1, 0>>}]

\* a thread that runs no handleClient
NoRequest ==
    [kStr |-> KString(TRUE, FALSE, 0), params |-> Params, matches |-> <<>>]

ThreadIdle ==
    [pc |-> "idle", req |-> NoRequest, k |-> 0, scored |-> 0, used |-> {},
     results |-> <<>>, sorted |-> <<>>, contents |-> <<>>]

\* the server after WebServer::start has loaded the index: evalMutex is
\* free (0) or held by a thread, the evaluator has the parameters of the
\* command line and contentFile is open at its beginning
WebServerStarted ==
    [pc |-> "serving", alive |-> TRUE, accepted |-> 0, evalMutex |-> 0,
     bm25Params |-> Params, contentFile |-> IStream,
     threads |-> [t \in Threads |-> ThreadIdle]]

\* contentFile.seekg(offset): a stream that has failed stays where it is
ContentSeek(is, offset) == IF is.good THEN [is EXCEPT !.pos = offset] ELSE is

\* std::string content(length, '\0'); contentFile.read(&content[0], length):
\* the bytes from the position of the stream on, as many as there are, and
\* the stream failed if there are fewer than length
ContentRead(is, length) ==
    IF ~is.good THEN [content |-> [i \in 1..length |-> 0], is |-> is]
    ELSE [content |-> [i \in 1..length |->
                          IF is.pos + i <= Len(ContentBytes)
                          THEN ContentBytes[is.pos + i] ELSE 0],
          is |-> [pos |-> Min(is.pos + length, Len(ContentBytes)),
                  good |-> is.pos + length <= Len(ContentBytes)]]

\* std::sort of getBatch: the docIDs by offset
SortedByOffset(docIDs) ==
    LET S == {docIDs[i] : i \in 1..Len(docIDs)}
    IN  SelectSeq([i \in 1..Len(Offsets) |-> i - 1], LAMBDA d : d \in S)

\* the first k of the matches: what topK keeps for a k of at least 1, and
\* for a negative k, which static_cast<size_t> makes larger than any heap
TopOf(matches, k) ==
    IF k < 0 THEN matches ELSE SubSeq(matches, 1, Min(k, Len(matches)))

\* A plausible slip: the lock_guard left out.
LockableAlways(w) == TRUE

\* std::lock_guard<std::mutex> lock(evalMutex) can return
Lockable(w) == w.evalMutex = 0

WebInit ==
    /\ vb = VbIdle
    /\ inFile = <<>>
    /\ mg = MergerConstructed
    /\ pl = NewPostingList
    /\ walk = NoWalk
    /\ qe = QeIdle
    /\ fsys = AllOpen
    /\ ix = IxIdle
    /\ ws = WebServerStarted

\* accept() and std::thread(&WebServer::handleClient, ...).detach(): a
\* thread starts on a /search request
WebAccept(t) ==
    /\ ws.alive
    /\ ws.accepted < MaxRequests
    /\ ws.threads[t].pc \in {"idle", "done"}
    /\ \E req \in Requests :
          ws' = [ws EXCEPT !.accepted = @ + 1,
                           !.threads[t] = [ThreadIdle EXCEPT !.pc = "parse", !.req = req]]

\* int k = kStr.empty() ? 10 : std::stoi(kStr);  nothing catches what
\* std::stoi throws in the thread, so it ends the process (std::terminate)
WebParse(t) ==
    /\ ws.alive
    /\ ws.threads[t].pc = "parse"
    /\ LET kStr == ws.threads[t].req.kStr
       IN  IF kStr.empty
           THEN ws' = [ws EXCEPT !.threads[t].k = 10, !.threads[t].pc = "lock"]
           ELSE IF Stoi(kStr).thrown
           THEN ws' = [ws EXCEPT !.alive = FALSE, !.threads[t].pc = "terminated"]
           ELSE ws' = [ws EXCEPT !.threads[t].k = Stoi(kStr).value,
                                 !.threads[t].pc = "lock"]

\* std::lock_guard<std::mutex> lock(evalMutex);
WebLock(t) ==
    /\ ws.alive
    /\ ws.threads[t].pc = "lock"
    /\ Lockable(ws)
    /\ ws' = [ws EXCEPT !.evalMutex = t, !.threads[t].pc = "update"]

\* evaluator->updateBM25Params(k1, b);
WebUpdate(t) ==
    /\ ws.alive
    /\ ws.threads[t].pc = "update"
    /\ ws' = [ws EXCEPT !.bm25Params = ws.threads[t].req.params,
                        !.threads[t].pc = "evaluate"]

\* processQuery scores the next matching document: bm25::score is called
\* with the evaluator's bm25Params as they are now
WebScore(t) ==
    /\ ws.alive
    /\ ws.threads[t].pc = "evaluate"
    /\ ws.threads[t].scored < Len(ws.threads[t].req.matches)
    /\ ws.threads[t].k # 0
    /\ ws' = [ws EXCEPT !.threads[t].scored = @ + 1,
                        !.threads[t].used = @ \cup {ws.bm25Params}]

\* with k = 0 the first document scored finds topK.size() < 0 false and
\* calls topK.top() on the empty heap, which is undefined: the thread
\* crashes the process, or goes on with nothing kept
WebScoreZero(t) ==
    /\ ws.alive
    /\ ws.threads[t].pc = "evaluate"
    /\ ws.threads[t].scored < Len(ws.threads[t].req.matches)
    /\ ws.threads[t].k = 0
    /\ \/ ws' = [ws EXCEPT !.alive = FALSE, !.threads[t].pc = "terminated"]
       \/ ws' = [ws EXCEPT !.threads[t].scored = @ + 1,
                           !.threads[t].used = @ \cup {ws.bm25Params}]

\* processQuery returns and the lock_guard goes out of scope; getBatch
\* sorts the docIDs of the results by offset
WebUnlock(t) ==
    /\ ws.alive
    /\ ws.threads[t].pc = "evaluate"
    /\ ws.threads[t].scored = Len(ws.threads[t].req.matches)
    /\ LET results == TopOf(ws.threads[t].req.matches, ws.threads[t].k)
       IN  ws' = [ws EXCEPT !.evalMutex = 0,
                            !.threads[t].results = results,
                            !.threads[t].sorted = SortedByOffset(results),
                            !.threads[t].pc = "seek"]

\* contentFile.seekg(doc.offset) for the next document of the batch
WebSeek(t) ==
    /\ ws.alive
    /\ ws.threads[t].pc = "seek"
    /\ ws.threads[t].sorted # <<>>
    /\ ws' = [ws EXCEPT
                !.contentFile = ContentSeek(@, OffsetOf(ws.threads[t].sorted[1]).offset),
                !.threads[t].pc = "read"]

\* contentFile.read(&content[0], doc.length); results[docID] = content;
WebRead(t) ==
    /\ ws.alive
    /\ ws.threads[t].pc = "read"
    /\ LET docID == ws.threads[t].sorted[1]
           r == ContentRead(ws.contentFile, OffsetOf(docID).length)
       IN  ws' = [ws EXCEPT
                    !.contentFile = r.is,
                    !.threads[t].contents = Append(@, [docID |-> docID,
                                                       content |-> r.content]),
                    !.threads[t].sorted = Tail(@),
                    !.threads[t].pc = "seek"]

\* the JSON response is made of the contents and sent, the socket closed
WebRespond(t) ==
    /\ ws.alive
    /\ ws.threads[t].pc = "seek"
    /\ ws.threads[t].sorted = <<>>
    /\ ws' = [ws EXCEPT !.threads[t].pc = "done"]

WebNext ==
    /\ \E t \in Threads :
          \/ WebAccept(t)
          \/ WebParse(t)
          \/ WebLock(t)
          \/ WebUpdate(t)
          \/ WebScore(t)
          \/ WebScoreZero(t)
          \/ WebUnlock(t)
          \/ WebSeek(t)
          \/ WebRead(t)
          \/ WebRespond(t)
    /\ UNCHANGED <<vb, inFile, mg, pl, walk, qe, fsys, ix>>

SpecWeb == WebInit /\ [][WebNext]_vars

-----------------------------------------------------------------------------
(***************************************************************************)
(* Claims about the codec                                                  *)
(***************************************************************************)
\* ceil(bitlength(v) / 7) for v > 0, and 1 for v = 0
EncodedLength(v) == IF v = U32Zero THEN 1 ELSE (BitLength(v) + 6) \div 7

\* C6: for every unsigned 32-bit value v, decode(encode(v)) = v and decode
\* consumes exactly the bytes encode wrote; the encoded length is 1 byte for
\* v in [0, 127], 2 bytes for v in [128, 16383] and ceil(bitlength(v) / 7)
\* bytes in general, at most 5.
C6_RoundTrip ==
    /\ vb.pc \in {"encoded", "decode", "returned"} =>
          /\ Len(vb.os) = EncodedLength(vb.v)
          /\ Len(vb.os) <= 5
          /\ U32Le(vb.v, U32(127)) => Len(vb.os) = 1
          /\ (U32Le(U32(128), vb.v) /\ U32Le(vb.v, U32(16383))) => Len(vb.os) = 2
          /\ decode(vb.os, IStream) =
                [status |-> "ok", value |-> vb.v,
                 is |-> [pos |-> Len(vb.os), good |-> TRUE]]
    /\ (vb.pc = "returned" /\ vb.cut = 0) =>
          /\ vb.value = vb.v
          /\ vb.is.pos = Len(vb.os)
          /\ vb.is.good

\* a five-byte value with its top bit set has been encoded and decoded
C6_Witness ==
    /\ vb.pc = "returned"
    /\ vb.cut = 0
    /\ vb.v = U32Max
    /\ Len(vb.os) = 5

\* C5: decode applied to a stream that ends before a terminal byte has been
\* read terminates and reports end-of-stream instead of looping: once get()
\* has reported the end of the stream the loop does not go round again.
C5_DecodeStopsAtEndOfStream ==
    vb.pc = "decode" => vb.is.good

-----------------------------------------------------------------------------
(***************************************************************************)
(* Claims about the index files and the cursor                             *)
(***************************************************************************)
\* where the blocks of a term end in a posting file: the offset of the next
\* lexicon record, or the end of the file for the last term
ExtentEnd(m, term, field, file) ==
    LET later == {i \in 1..Len(m.lexiconFile) :
                     m.lexiconFile[i][field] > Lexicon(m)[term][field]}
    IN  IF later = {} THEN Len(file)
        ELSE m.lexiconFile[CHOOSE i \in later : \A k \in later : i <= k][field]

\* C1: for every term the merger writes, a cursor opened on the term's
\* lexicon record and advanced with next() until it is invalid yields exactly
\* the term's (docID, tf) pairs, in order and once each; the first value of
\* every block is taken as an absolute docID, and the cursor never reads
\* past the bytes of its own term.
C1_CursorYieldsPostings ==
    walk.op \in {"open", "next"} =>
        LET ps == TermPostings(walk.term)
        IN  /\ walk.status = "ok"
            /\ walk.ret = valid(pl)
            /\ valid(pl) =>
                  /\ walk.n \in 1..Len(ps)
                  /\ doc(pl) = ps[walk.n].docID
                  /\ freq(pl) = ps[walk.n].tf
                  /\ walk.n = (pl.currentBlock - 1) * BLOCK_SIZE + pl.blockPos + 1
                  /\ pl.docIDsBuffer[1] =
                        ps[(pl.currentBlock - 1) * BLOCK_SIZE + 1].docID
            /\ ~valid(pl) => walk.n = Len(ps)
            /\ pl.docidsFile.pos <=
                  ExtentEnd(mg, walk.term, "docids_offset", mg.docIdsFile)
            /\ pl.freqsFile.pos <=
                  ExtentEnd(mg, walk.term, "freqs_offset", mg.freqsFile)

\* a list of more than MaxBlocks blocks, followed by another term in both
\* files, has been walked to its end
C1_Witness ==
    /\ walk.op = "next"
    /\ walk.term = "m"
    /\ ~valid(pl)
    /\ walk.n = MaxBlocks * BLOCK_SIZE + 1
    /\ pl.docidsFile.pos < Len(mg.docIdsFile)

\* what C4 says of one nextGEQ call, given the postings ps of the term
NextGEQContract(ps) ==
    /\ walk.ret => valid(pl) /\ U32Le(walk.target, doc(pl))
    /\ ~walk.ret =>
          /\ ~valid(pl)
          /\ \A i \in 1..Len(ps) : U32Lt(ps[i].docID, walk.target)

\* C4 as stated: for every cursor state and every target, nextGEQ(target)
\* returning true leaves the cursor valid with doc() >= target, and returning
\* false leaves it invalid with no docID >= target in the term's list.
C4_NextGEQEveryState ==
    walk.op = "nextGEQ" => NextGEQContract(TermPostings(walk.term))

\* C4, amended: the same for a cursor that is valid before the call; on a
\* cursor that is already invalid nextGEQ returns false and the cursor stays
\* invalid, whatever the list contains.
C4_NextGEQValidCursor ==
    walk.op = "nextGEQ" =>
        /\ walk.status = "ok"
        /\ walk.wasValid => NextGEQContract(TermPostings(walk.term))
        /\ ~walk.wasValid => ~walk.ret /\ ~valid(pl)

\* nextGEQ has carried a valid cursor from the first block of a list into
\* its last block, onto the target
C4_Witness ==
    /\ walk.op = "nextGEQ"
    /\ walk.wasValid
    /\ walk.ret
    /\ walk.n <= BLOCK_SIZE
    /\ pl.currentBlock = MaxBlocks + 1
    /\ doc(pl) = walk.target

-----------------------------------------------------------------------------
(***************************************************************************)
(* Claims about processQuery.  What a document contains, how long it is    *)
(* and what it scores are taken from the rows the index was built from.    *)
(***************************************************************************)
Documents == {inFile[i].docID : i \in 1..Len(inFile)}

Contains(term, d) ==
    \E i \in 1..Len(inFile) : inFile[i].term = term /\ inFile[i].docID = d

Submitted == {qe.queryTerms[i] : i \in 1..Len(qe.queryTerms)}

\* the mode predicate on the terms as submitted
ModePredicate(d) ==
    IF qe.mode = "and" THEN \A t \in Submitted : Contains(t, d)
    ELSE \E t \in Submitted : Contains(t, d)

RECURSIVE SumTf(_, _)
SumTf(rows, i) ==
    IF i > Len(rows) THEN U32Zero ELSE U32Add(rows[i].tf, SumTf(rows, i + 1))

DocumentLength(d) == SumTf(SelectSeq(inFile, LAMBDA r : r.docID = d), 1)

\* BM25 of a term in a document, given the rows of the term and those of
\* them that are of the document
TermScoreOf(rows, hits, d) ==
    IF hits = <<>> THEN 0
    ELSE score(idf(mg.statsFile.doc_count, Len(rows)), hits[1].tf,
               DocumentLength(d), mg.statsFile.avgdl, Params)

TermScore(term, d) ==
    TermScoreOf(SelectSeq(inFile, LAMBDA r : r.term = term),
                SelectSeq(inFile, LAMBDA r : r.term = term /\ r.docID = d), d)

\* the score of a document for the query: the sum over the query terms
RECURSIVE DocScore(_, _)
DocScore(d, i) ==
    IF i > Len(qe.queryTerms) THEN 0
    ELSE TermScore(qe.queryTerms[i], d) + DocScore(d, i + 1)

ResultDocs == {qe.results[i].docID : i \in 1..Len(qe.results)}

\* C2: a finished processQuery has returned min(k, M) results, M being the
\* number of documents that satisfy the mode predicate, and no document
\* that satisfies it and was left out scores more than a returned one.
C2_TopKOfPredicate ==
    qe.pc = "done" =>
        /\ Len(qe.results) = Min(qe.k, Cardinality({d \in Documents : ModePredicate(d)}))
        /\ \A d \in Documents \ ResultDocs :
              ModePredicate(d) =>
                  \A i \in 1..Len(qe.results) : DocScore(d, 1) <= qe.results[i].score

\* C3: in AND mode every returned document is in the posting list of every
\* term of the query as submitted.
C3_AndResultsContainEveryTerm ==
    (qe.pc = "done" /\ qe.mode = "and") =>
        \A i \in 1..Len(qe.results) :
            \A t \in Submitted : Contains(t, qe.results[i].docID)

\* every result is among those of the OR evaluation or, which has run to
\* its end, with the same score
WithinOr(results, or) ==
    /\ or.pc \in {"drain", "done"}
    /\ \A i \in 1..Len(results) :
          \E j \in 1..Len(or.topK) : or.topK[j] = results[i]

\* C7: the results of processQuery in AND mode are among those of OR mode
\* for the same terms with k no less than the number of documents, each
\* with the same score.
C7_AndWithinOr ==
    (qe.pc = "done" /\ qe.mode = "and") =>
        WithinOr(qe.results,
                 processQueryOr(qe.queryTerms, Len(inFile), Later, IndexDir(mg),
                                Len(inFile)))

C7_Witness ==
    /\ qe.pc = "done" /\ qe.mode = "and" /\ qe.variant = Later
    /\ qe.queryTerms = <<"a", "b">>
    /\ qe.k = MaxDocID + 1
    /\ Len(qe.results) >= 2
    /\ \E d \in Documents : d \notin ResultDocs

\* list i was valid and is not, or is on a greater docID than it was
CursorAdvanced(before, after) ==
    /\ valid(before)
    /\ ~valid(after) \/ U32Lt(doc(before), doc(after))

\* C8: every pass of the loop of evaluateAND comes to its end, and either
\* leaves the loop, or makes some cursor invalid, or moves some cursor to a
\* greater docID.
C8_AndProgress ==
    [][qe.pc = "and" =>
          /\ qe'.pc \in {"and", "drain"}
          /\ \/ qe'.pc = "drain"
             \/ \E i \in 1..Len(qe.lists) : CursorAdvanced(qe.lists[i], qe'.lists[i])]_vars

\* C9: the docIDs offered to topK are strictly increasing, in both modes,
\* so none is offered twice, and the results returned have distinct docIDs.
C9_OfferedOnce ==
    /\ \A i, j \in 1..Len(qe.offered) :
          i < j => U32Lt(qe.offered[i], qe.offered[j])
    /\ qe.pc = "done" =>
          \A i, j \in 1..Len(qe.results) :
              i < j => qe.results[i].docID # qe.results[j].docID

C9_Witness ==
    /\ qe.pc = "done" /\ qe.mode = "or"
    /\ qe.queryTerms = <<"a", "b">>
    /\ Len(qe.lists) = 2
    /\ Len(qe.offered) = MaxDocID + 1
    /\ Len(qe.results) = 2
    /\ \E d \in Documents : Contains("a", d) /\ Contains("b", d)

\* the query terms that are in the lexicon, in order
Present == SelectSeq(qe.queryTerms, LAMBDA t : LexiconFind(Lexicon(mg), t))

\* the evaluator q is where the evaluator f is, the arguments apart
SameSetup(q, f) ==
    /\ q.pc = f.pc /\ q.metas = f.metas /\ q.lists = f.lists /\ q.idfs = f.idfs
    /\ q.shared = f.shared /\ q.topK = f.topK /\ q.status = f.status

RECURSIVE Distinct(_, _)
Distinct(terms, i) ==
    IF i > Len(terms) THEN <<>>
    ELSE IF \E j \in 1..(i - 1) : terms[j] = terms[i] THEN Distinct(terms, i + 1)
    ELSE <<terms[i]>> \o Distinct(terms, i + 1)

RECURSIVE DistinctScore(_, _, _)
DistinctScore(terms, d, i) ==
    IF i > Len(terms) THEN 0
    ELSE TermScore(terms[i], d) + DistinctScore(terms, d, i + 1)

\* C11: processQuery of querier.hpp opens one cursor for a term however
\* often the term occurs in the terms it is passed, and a returned document
\* has the score of the query with the duplicates removed.
C11_DuplicateTermsOnce ==
    qe.variant = Later =>
        /\ qe.pc \in {"and", "or", "drain", "done"} =>
               Len(qe.lists) <= Cardinality(Submitted)
        /\ qe.pc = "done" =>
               \A i \in 1..Len(qe.results) :
                   qe.results[i].score =
                       DistinctScore(Distinct(qe.queryTerms, 1), qe.results[i].docID, 1)

-----------------------------------------------------------------------------
(***************************************************************************)
(* Claims about the merger as a program                                    *)
(***************************************************************************)
\* a line that is not  term TAB docID TAB tf  with decimal numbers
Malformed(line) ==
    /\ ~line.skip
    /\ line.tabs < 2 \/ ~line.docID.isNumber \/ ~line.tf.isNumber

\* C16: reading a malformed line adds one warning and changes nothing else:
\* no output file, no statistic, and the merger is still reading, at the
\* next line.
C16_MalformedLineSkipped ==
    [][(mg.pc = "reading" /\ mg.line < Len(inFile) /\ Malformed(inFile[mg.line + 1]))
           => mg' = [mg EXCEPT !.warnings = @ + 1, !.line = @ + 1]]_vars

\* C17: main() returns 0 only if each of the five output files was opened.
C17_OutputFailureIsFatal ==
    mg.pc = "done" => (CtorFiles \cup StatsFiles) \subseteq mg.opened

\* the sum of the tf of rows lo .. hi - 1 (the range is halved)
RECURSIVE SumTfRange(_, _, _)
SumTfRange(rows, lo, hi) ==
    IF lo >= hi THEN 0
    ELSE IF hi = lo + 1 THEN ToNat(rows[lo].tf)
    ELSE SumTfRange(rows, lo, (lo + hi) \div 2) + SumTfRange(rows, (lo + hi) \div 2, hi)

\* a lexicon record says what the input holds for its term
RecordCounts(rec, ps) ==
    /\ rec.df = Len(ps)
    /\ rec.cf = SumTfRange(ps, 1, Len(ps) + 1)
    /\ rec.blocks = (Len(ps) + BLOCK_SIZE - 1) \div BLOCK_SIZE

\* C19: every lexicon record the merger has written has the df and the cf
\* of the postings of its term, and a cursor that has decoded all the blocks
\* of the record has yielded df postings whose frequencies sum to cf.
C19_LexiconCounts ==
    /\ \A i \in 1..Len(mg.lexiconFile) :
          RecordCounts(mg.lexiconFile[i], TermPostings(mg.lexiconFile[i].term))
    /\ (walk.op = "next" /\ ~walk.ret) =>
          /\ walk.n = Lexicon(mg)[walk.term].df
          /\ walk.sum = Lexicon(mg)[walk.term].cf
          /\ pl.currentBlock = Lexicon(mg)[walk.term].blocks

\* the list of more than MaxBlocks blocks has been decoded to its end
C19_Witness ==
    /\ walk.op = "next"
    /\ ~walk.ret
    /\ walk.term = "m"
    /\ Lexicon(mg)["m"].blocks = MaxBlocks + 1
    /\ walk.sum > 0

\* a natural number that may pass 2^31: <<q, r>> stands for q * 2^16 + r
\* (a uint32_t is such a pair with q below 2^16)
Wide(n) == <<n \div B16, n % B16>>

WidePlus(a, b) == <<a[1] + b[1] + ((a[2] + b[2]) \div B16), (a[2] + b[2]) % B16>>

\* the postings the merger accepts from its input
Accepted == SelectSeq(inFile, LAMBDA line : ~line.skip /\ ~Malformed(line))

RECURSIVE WideTf(_, _)
WideTf(lines, i) ==
    IF i > Len(lines) THEN Wide(0)
    ELSE WidePlus(lines[i].tf.value, WideTf(lines, i + 1))

RECURSIVE WideCf(_, _)
WideCf(lexicon, i) ==
    IF i > Len(lexicon) THEN Wide(0)
    ELSE WidePlus(Wide(lexicon[i].cf), WideCf(lexicon, i + 1))

\* C20: when the merger has finished, the length stored for a document is
\* the sum of the tf of the accepted postings of the document, and
\* total_doc_length is the sum of cf over the lexicon records.
C20_DocLengthsAreSums ==
    (mg.pc = "done" /\ StatsFiles \subseteq mg.opened) =>
        /\ \A i \in 1..Len(Accepted) :
              DocLengthAt(mg.docLenFile, ToNat(Accepted[i].docID.value)) =
                  WideTf(SelectSeq(Accepted,
                                   LAMBDA l : l.docID.value = Accepted[i].docID.value), 1)
        /\ Wide(mg.statsFile.total_doc_length) = WideCf(mg.lexiconFile, 1)

\* the two files disagree on the length of the first block of a term
MismatchAtOpen(term) ==
    /\ LexiconFind(Lexicon(mg), term)
    /\ decode(mg.docIdsFile, StreamSeek(IStream, Lexicon(mg)[term].docids_offset)).value
         # decode(mg.freqsFile, StreamSeek(IStream, Lexicon(mg)[term].freqs_offset)).value

\* loadNextBlock has given up on a block of an open list with blocks left:
\* the lengths of a later block disagree
MismatchLater(c) == ~c.hasMore /\ c.currentBlock < c.totalBlocks

\* C15: a cursor that has met a block length mismatch is invalid, and a
\* processQuery that has met one, at open or at a later block load, does
\* not return a result list.
C15_MismatchFailsQuery ==
    /\ \A i \in 1..Len(qe.lists) : MismatchLater(qe.lists[i]) => ~valid(qe.lists[i])
    /\ qe.pc = "done" =>
          /\ \A t \in Submitted : ~MismatchAtOpen(t)
          /\ \A i \in 1..Len(qe.lists) : ~MismatchLater(qe.lists[i])

\* the term whose lexicon record is meta
TermOf(meta) == CHOOSE t \in DOMAIN Lexicon(mg) : Lexicon(mg)[t] = meta

\* the postings of block b of the list ps
BlockOf(ps, b) ==
    [j \in 1..Min(BLOCK_SIZE, Len(ps) - (b - 1) * BLOCK_SIZE) |->
        ps[(b - 1) * BLOCK_SIZE + j]]

\* what a cursor run alone over ps holds and yields at block
\* c.currentBlock, position c.blockPos (C1)
AsAlone(c, ps) ==
    LET block == BlockOf(ps, c.currentBlock)
    IN  /\ c.docIDsBuffer = [j \in 1..Len(block) |-> block[j].docID]
        /\ c.freqsBuffer = [j \in 1..Len(block) |-> block[j].tf]
        /\ valid(c) =>
              /\ c.blockPos < Len(block)
              /\ doc(c) = block[c.blockPos + 1].docID
              /\ freq(c) = block[c.blockPos + 1].tf

\* C14: whatever calls the evaluator of querier.hpp has made on the other
\* lists of the query, each list holds the block of its own term that its
\* own block counter names and yields the posting at its own position in
\* it, as a cursor run alone does.
C14_CursorsIndependent ==
    qe.variant = Later =>
        \A i \in 1..Len(qe.lists) :
            ~MismatchLater(qe.lists[i]) =>
                AsAlone(qe.lists[i],
                        SelectSeq(inFile, LAMBDA r : r.term = TermOf(qe.metas[i])))

\* the first list of a query of two lists has loaded its second block
\* after the second list was opened, and the document found in that block
\* has been returned
C14_Witness ==
    /\ qe.variant = Later
    /\ qe.pc = "done"
    /\ Len(qe.lists) = 2
    /\ qe.lists[1].currentBlock = 2
    /\ qe.lists[2].currentBlock = 1
    /\ Len(qe.results) = 1

-----------------------------------------------------------------------------
(***************************************************************************)
(* Claims about the web server                                             *)
(***************************************************************************)
\* the bytes of a document in the doc-content file
ContentOf(docID) ==
    SubSeq(ContentBytes, OffsetOf(docID).offset + 1,
           OffsetOf(docID).offset + OffsetOf(docID).length)

\* C12: every read on contentFile follows the seek of the same thread with
\* no call of another thread on the stream in between, so that the
\* contents a request has read are those of the documents it asked for.
C12_ContentOfRequestedDocs ==
    \A t \in Threads :
        /\ ws.threads[t].pc = "read" =>
              ws.contentFile = [pos |-> OffsetOf(ws.threads[t].sorted[1]).offset,
                                good |-> TRUE]
        /\ \A i \in 1..Len(ws.threads[t].contents) :
              ws.threads[t].contents[i].content =
                  ContentOf(ws.threads[t].contents[i].docID)

\* the threads inside the evaluator
InEvaluator == {t \in Threads : ws.threads[t].pc \in {"update", "evaluate"}}

\* C13: at most one request is inside the evaluator; from its own
\* updateBM25Params to the end of its processQuery the evaluator's
\* parameters are those of the request, and they are the only ones its
\* evaluation has read.
C13_ParamsOfOwnRequest ==
    /\ Cardinality(InEvaluator) <= 1
    /\ \A t \in Threads :
          /\ t \in InEvaluator => ws.evalMutex = t
          /\ ws.threads[t].pc = "evaluate" =>
                ws.bm25Params = ws.threads[t].req.params
          /\ ws.threads[t].used \subseteq {ws.threads[t].req.params}

\* a request is being evaluated, has scored a document, and a request with
\* other parameters waits for evalMutex
C13_Witness ==
    \E t, u \in Threads :
        /\ ws.threads[t].pc = "evaluate"
        /\ ws.threads[t].used # {}
        /\ ws.threads[u].pc = "lock"
        /\ ws.threads[u].req.params # ws.threads[t].req.params

\* C18: a k that is zero, negative or not a number stops at the HTTP
\* layer: the process goes on serving and no thread takes such a k to
\* processQuery.
C18_InvalidKRejected ==
    /\ ws.alive
    /\ \A t \in Threads :
          ws.threads[t].pc \in {"lock", "update", "evaluate"} => ws.threads[t].k >= 1

-----------------------------------------------------------------------------
(***************************************************************************)
(* Further claims about the codec                                          *)
(***************************************************************************)
\* bit j of a 32-bit value (0 from bit 32 on)
BitOf(v, j) ==
    IF j < 16 THEN (v[2] \div 2^j) % 2
    ELSE IF j < 32 THEN (v[1] \div 2^(j - 16)) % 2
    ELSE 0

\* the i-th group of seven bits of v, the least significant being group 0
GroupOf(v, i) ==
    BitOf(v, 7 * i) + 2 * BitOf(v, 7 * i + 1) + 4 * BitOf(v, 7 * i + 2)
        + 8 * BitOf(v, 7 * i + 3) + 16 * BitOf(v, 7 * i + 4)
        + 32 * BitOf(v, 7 * i + 5) + 64 * BitOf(v, 7 * i + 6)

-----------------------------------------------------------------------------
(***************************************************************************)
(* Further claims about processQuery                                       *)
(***************************************************************************)
\* C28: the list processQuery returns is in descending order of score: no
\* result has a lower score than the one after it.
C28_ResultsDescending ==
    qe.pc = "done" =>
        \A i \in 1..(Len(qe.results) - 1) :
            qe.results[i].score >= qe.results[i + 1].score

\* three results have been returned, the first with a higher score than
\* the last
C28_Witness ==
    /\ qe.pc = "done"
    /\ Len(qe.results) >= 3
    /\ qe.results[1].score > qe.results[Len(qe.results)].score

\* the documents of the posting lists of the submitted terms
UnionOfLists == {d \in Documents : \E t \in Submitted : Contains(t, d)}

-----------------------------------------------------------------------------
(***************************************************************************)
(* Claims about the layout of the posting files.  A file is read as the    *)
(* reader reads it: a block is a length followed by that many numbers.     *)
(***************************************************************************)
\* the byte range of the i-th lexicon record in a posting file: from its
\* own offset to the offset of the next record, or to the end of the file
RangeOf(lexicon, i, field, file) ==
    [from |-> lexicon[i][field],
     to   |-> IF i < Len(lexicon) THEN lexicon[i + 1][field] ELSE Len(file)]

\* the block that starts at the stream position of h: its length is
\* appended to h.lens and the stream is left behind its last number
ReadBlock(data, h, len) ==
    IF len.status # "ok" \/ ~len.is.good \/ ~IsSmall(len.value)
    THEN [h EXCEPT !.whole = FALSE]
    ELSE LET body == DecodeFreqs(data, [status |-> "ok", is |-> len.is, buffer |-> <<>>],
                                 0, ToNat(len.value))
         IN  IF body.status # "ok" \/ ~body.is.good
             THEN [h EXCEPT !.whole = FALSE]
             ELSE [h EXCEPT !.is = body.is, !.lens = Append(@, ToNat(len.value))]

\* the lengths of the blocks that lie one after the other between the
\* stream position and the byte position to; whole tells whether they fill
\* the range exactly
RECURSIVE ReadBlocks(_, _, _)
ReadBlocks(data, h, to) ==
    IF ~h.whole \/ h.is.pos >= to THEN [h EXCEPT !.whole = h.whole /\ h.is.pos = to]
    ELSE ReadBlocks(data, ReadBlock(data, h, decode(data, h.is)), to)

BlockLengths(data, range) ==
    ReadBlocks(data, [is |-> StreamSeek(IStream, range.from), lens |-> <<>>,
                      whole |-> TRUE], range.to)

DocIdBlocks(i) ==
    BlockLengths(mg.docIdsFile, RangeOf(mg.lexiconFile, i, "docids_offset", mg.docIdsFile))

FreqBlocks(i) ==
    BlockLengths(mg.freqsFile, RangeOf(mg.lexiconFile, i, "freqs_offset", mg.freqsFile))

\* what two files hold for one term: whole blocks, as many in the one as in
\* the other, with the same lengths in the same order
Aligned(d, f) == d.whole /\ f.whole /\ d.lens = f.lens /\ Len(d.lens) >= 1

\* C21: whenever the merger stands between two calls of writeInvertedList,
\* or has finished, the bytes of every term written so far are whole blocks
\* in both posting files, as many in the one as in the other, and the i-th
\* block has the same length header in both.  (The files are looked at
\* until a cursor is opened on them; no cursor writes them.)
C21_BlocksAligned ==
    walk.op = "none" =>
        \A i \in 1..Len(mg.lexiconFile) : Aligned(DocIdBlocks(i), FreqBlocks(i))

\* a term of more than MaxBlocks blocks is written, with a term after it
C21_Witness ==
    /\ walk.op = "none"
    /\ Len(mg.lexiconFile) = 3
    /\ Len(DocIdBlocks(2).lens) = MaxBlocks + 1
    /\ Len(FreqBlocks(2).lens) = MaxBlocks + 1

\* ceil(n / BLOCK_SIZE)
CeilBlocks(n) == (n + BLOCK_SIZE - 1) \div BLOCK_SIZE

\* the block lengths of a list of n postings: BLOCK_SIZE in every block but
\* the last, the rest in the last
ExpectedLengths(n) ==
    [j \in 1..CeilBlocks(n) |->
        IF j < CeilBlocks(n) THEN BLOCK_SIZE ELSE n - BLOCK_SIZE * (CeilBlocks(n) - 1)]

\* n: the number of rows of the term in the merger's input
WrittenAs(record, d, f, n) ==
    /\ d.whole /\ d.lens = ExpectedLengths(n)
    /\ f.whole /\ f.lens = ExpectedLengths(n)
    /\ record.blocks = CeilBlocks(n)

\* C22: a term with n rows in the input is written as ceil(n / 128) blocks
\* in both files, of 128 postings each but the last, which has the rest
\* (between 1 and 128), and blocks_count of its lexicon record is
\* ceil(n / 128).
C22_BlockCounts ==
    walk.op = "none" =>
        \A i \in 1..Len(mg.lexiconFile) :
            WrittenAs(mg.lexiconFile[i], DocIdBlocks(i), FreqBlocks(i),
                      Len(TermPostings(mg.lexiconFile[i].term)))

\* 129 postings have been written as two blocks of 128 and 1
C22_Witness ==
    /\ walk.op = "none"
    /\ Len(mg.lexiconFile) >= 2
    /\ Len(TermPostings(mg.lexiconFile[2].term)) = BLOCK_SIZE + 1
    /\ DocIdBlocks(2).lens = <<BLOCK_SIZE, 1>>
    /\ FreqBlocks(2).lens = <<BLOCK_SIZE, 1>>
    /\ mg.lexiconFile[2].blocks = 2

\* what posting i of a list stands for in the docID file: its docID at the
\* head of a block, its distance from the posting before it elsewhere
GapOf(ps, i) ==
    IF (i - 1) % BLOCK_SIZE = 0 THEN ps[i].docID
    ELSE U32Sub(ps[i].docID, ps[i - 1].docID)

\* the bytes of the postings lo .. hi - 1 of a list in the docID file
RECURSIVE GapBytes(_, _, _)
GapBytes(ps, lo, hi) ==
    IF lo >= hi THEN 0
    ELSE IF hi = lo + 1 THEN EncodedLength(GapOf(ps, lo))
    ELSE GapBytes(ps, lo, (lo + hi) \div 2) + GapBytes(ps, (lo + hi) \div 2, hi)

\* the bytes of the postings lo .. hi - 1 of a list in the frequency file
RECURSIVE TfBytes(_, _, _)
TfBytes(ps, lo, hi) ==
    IF lo >= hi THEN 0
    ELSE IF hi = lo + 1 THEN EncodedLength(ps[lo].tf)
    ELSE TfBytes(ps, lo, (lo + hi) \div 2) + TfBytes(ps, (lo + hi) \div 2, hi)

\* the bytes of the length headers of a list of n postings
RECURSIVE HeaderBytes(_)
HeaderBytes(n) ==
    IF n <= 0 THEN 0
    ELSE EncodedLength(U32(Min(BLOCK_SIZE, n))) + HeaderBytes(n - BLOCK_SIZE)

DocIdBytesOf(ps) == HeaderBytes(Len(ps)) + GapBytes(ps, 1, Len(ps) + 1)

FreqBytesOf(ps) == HeaderBytes(Len(ps)) + TfBytes(ps, 1, Len(ps) + 1)

\* where the range of record i ends in the two files, its offsets and the
\* bytes of its rows given
EndsAt(record, ps) ==
    [docids |-> record.docids_offset + DocIdBytesOf(ps),
     freqs  |-> record.freqs_offset + FreqBytesOf(ps)]

\* the record that follows starts where end says, or the files end there
FollowedAt(lexicon, i, end) ==
    IF i < Len(lexicon)
    THEN /\ lexicon[i + 1].docids_offset = end.docids
         /\ lexicon[i + 1].freqs_offset = end.freqs
    ELSE /\ Len(mg.docIdsFile) = end.docids
         /\ Len(mg.freqsFile) = end.freqs

\* C23: the offsets of the first lexicon record are 0, the offsets of every
\* later record are those of the record before it plus the bytes written
\* for that term (headers, gaps and frequencies of its rows), and the last
\* range ends where the file ends: the ranges lie one after the other with
\* nothing between them.
C23_OffsetsContiguous ==
    (walk.op = "none" /\ Len(mg.lexiconFile) >= 1) =>
        /\ mg.lexiconFile[1].docids_offset = 0
        /\ mg.lexiconFile[1].freqs_offset = 0
        /\ \A i \in 1..Len(mg.lexiconFile) :
              FollowedAt(mg.lexiconFile, i,
                         EndsAt(mg.lexiconFile[i], TermPostings(mg.lexiconFile[i].term)))

\* three terms are written, the second of more than MaxBlocks blocks, and
\* the two offsets of the third differ
C23_Witness ==
    /\ walk.op = "none"
    /\ Len(mg.lexiconFile) = 3
    /\ mg.lexiconFile[2].blocks = MaxBlocks + 1
    /\ mg.lexiconFile[3].docids_offset > mg.lexiconFile[3].freqs_offset
    /\ mg.lexiconFile[2].docids_offset > 0

-----------------------------------------------------------------------------
(***************************************************************************)
(* Further claims about the merger                                         *)
(***************************************************************************)
\* the docIDs of the postings the merger accepts
AcceptedDocIDs == {ToNat(Accepted[i].docID.value) : i \in 1..Len(Accepted)}

\* C24: when the merger has finished and has written doc_len.bin and
\* stats.txt, doc_len.bin has doc_count entries, doc_count being the value
\* in stats.txt: every docID of an accepted posting is below doc_count, so
\* has an entry, and the entry of a docID below doc_count that no posting
\* has is 0.
C24_DocLenEntries ==
    (mg.pc = "done" /\ StatsFiles \subseteq mg.opened) =>
        /\ mg.docLenFile.size = mg.statsFile.doc_count
        /\ \A d \in AcceptedDocIDs : d < mg.statsFile.doc_count
        /\ DOMAIN mg.docLenFile.nz \subseteq AcceptedDocIDs
        /\ \A d \in (0..(mg.statsFile.doc_count - 1)) \ AcceptedDocIDs :
              DocLengthAt(mg.docLenFile, d) = U32Zero

\* the merger has finished on an input in which document 1 has postings
\* and document 0, below it, has none
C24_Witness ==
    /\ mg.pc = "done"
    /\ StatsFiles \subseteq mg.opened
    /\ 1 \in AcceptedDocIDs
    /\ 0 \notin AcceptedDocIDs
    /\ mg.statsFile.doc_count >= 2
    /\ mg.docLenFile.size >= 2

\* the accepted rows among the lines the merger has read so far
AcceptedSoFar ==
    SelectSeq(SubSeq(inFile, 1, mg.line), LAMBDA line : ~line.skip /\ ~Malformed(line))

\* the terms of rows, each once, in the order in which they first occur
RECURSIVE DistinctTerms(_, _, _)
DistinctTerms(rows, i, seen) ==
    IF i > Len(rows) THEN <<>>
    ELSE IF rows[i].term \in seen THEN DistinctTerms(rows, i + 1, seen)
    ELSE <<rows[i].term>> \o DistinctTerms(rows, i + 1, seen \cup {rows[i].term})

\* the rows whose list is written: all but those still held in
\* currentPostings
Flushed(rows) == SubSeq(rows, 1, Len(rows) - Len(mg.currentPostings))

LexiconTerms == [i \in 1..Len(mg.lexiconFile) |-> mg.lexiconFile[i].term]

\* the lexicon and the two counters say what rows says
Recorded(rows) ==
    /\ LexiconTerms = DistinctTerms(rows, 1, {})
    /\ \A i \in 1..Len(mg.lexiconFile) :
          mg.lexiconFile[i].df =
              Len(SelectSeq(rows, LAMBDA r : r.term = mg.lexiconFile[i].term))
    /\ mg.totalTerms = Len(mg.lexiconFile)
    /\ mg.totalPostings = Len(rows)

\* C30: on input sorted by term the lexicon has one record for every
\* distinct term of the accepted rows whose list is written, in input
\* order, with the number of rows of the term as df; while the merger reads,
\* the rows not yet written are those of the term of the last accepted row,
\* and when it has finished none is left; total_terms in stats.txt is the
\* number of records and total_postings the number of accepted rows.
C30_OneRecordPerTerm ==
    /\ mg.pc = "reading" =>
          /\ Recorded(Flushed(AcceptedSoFar))
          /\ \A i \in 1..Len(mg.currentPostings) :
                AcceptedSoFar[Len(AcceptedSoFar) - Len(mg.currentPostings) + i].term
                    = mg.currentTerm
          /\ AcceptedSoFar # <<>> =>
                /\ mg.currentPostings # <<>>
                /\ AcceptedSoFar[Len(AcceptedSoFar)].term = mg.currentTerm
                /\ mg.currentTerm \notin {LexiconTerms[i] : i \in 1..Len(LexiconTerms)}
    /\ mg.pc = "done" =>
          /\ Recorded(Accepted)
          /\ "stats.txt" \in mg.opened =>
                /\ mg.statsFile.total_terms = Len(mg.lexiconFile)
                /\ mg.statsFile.total_postings = Len(Accepted)

\* the merger has finished on four terms, the first of two rows, with a
\* malformed line among them
C30_Witness ==
    /\ mg.pc = "done"
    /\ "stats.txt" \in mg.opened
    /\ LexiconTerms = <<"a", "ab", "b", "c">> \/ LexiconTerms = <<"a", "b", "c">>
    /\ mg.lexiconFile[1].df = 2
    /\ mg.warnings = 1
    /\ mg.statsFile.total_postings = 5

\* the docIDs a cursor stands on from the call that returned r on, next()
\* being called until the cursor is no longer valid
RECURSIVE WalkDocs(_, _)
WalkDocs(r, files) ==
    IF r.status # "ok" \/ ~valid(r.c) THEN <<>>
    ELSE <<doc(r.c)>> \o WalkDocs(next(r.c, files), files)

\* the docIDs of the list of the i-th lexicon record as a cursor reads them
ReadBack(i) ==
    WalkDocs(open(NewPostingList, Lexicon(mg)[mg.lexiconFile[i].term], PostingFiles(mg)),
             PostingFiles(mg))

StrictlyIncreasing(docs) == \A j \in 1..(Len(docs) - 1) : U32Lt(docs[j], docs[j + 1])

\* the lines are sorted by term and then by docID, equal rows allowed
SortedInput ==
    \A i \in 1..(Len(Accepted) - 1) :
        \/ Accepted[i].term # Accepted[i + 1].term
        \/ U32Le(Accepted[i].docID.value, Accepted[i + 1].docID.value)

\* C26: when the merger has finished on a sorted input, the docIDs of every
\* list it has written are strictly increasing as a cursor reads them.
C26_ReadBackIncreasing ==
    (mg.pc = "done" /\ SortedInput) =>
        \A i \in 1..Len(mg.lexiconFile) : StrictlyIncreasing(ReadBack(i))

-----------------------------------------------------------------------------
(***************************************************************************)
(* Claims about the indexer and the merger together                        *)
(***************************************************************************)
\* the docIDs the indexer has assigned, as doc_table.txt lists them
AssignedDocIDs == {ToNat(ix.docTableFile[i]) : i \in 1..Len(ix.docTableFile)}

\* C25: when the merger has finished on the sorted rows of the indexer,
\* doc_count in stats.txt is the number of documents the indexer assigned a
\* docID to, and the docIDs assigned are those below doc_count.
C25_DocCountIsAssigned ==
    (ix.pc = "sorted" /\ mg.pc = "done") =>
        /\ mg.statsFile.doc_count = Len(ix.docTableFile)
        /\ AssignedDocIDs = 0..(mg.statsFile.doc_count - 1)

-----------------------------------------------------------------------------
(***************************************************************************)
(* The codec against the format its header describes                       *)
(***************************************************************************)
\* C39: in the bytes encode has written, bit 7 is set on the last byte and
\* clear on every byte before it, and the groups of seven bits stand with
\* the most significant first; 824 is written as 0E C8.
C39_HeaderFormat ==
    vb.pc = "encoded" =>
        /\ vb.os[Len(vb.os)] >= 128
        /\ \A i \in 1..(Len(vb.os) - 1) : vb.os[i] < 128
        /\ \A i \in 1..Len(vb.os) : vb.os[i] % 128 = GroupOf(vb.v, Len(vb.os) - i)
        /\ vb.v = U32(824) => vb.os = <<14, 200>>

-----------------------------------------------------------------------------
(***************************************************************************)
(* Further claims about the cursor                                         *)
(***************************************************************************)
\* the place in its list of the posting a valid cursor stands on, the first
\* posting being 1
Position(c) == (c.currentBlock - 1) * BLOCK_SIZE + c.blockPos + 1

\* the places after from of the postings with a docID of target or more
Qualifying(ps, from, target) ==
    {j \in (from + 1)..Len(ps) : U32Le(target, ps[j].docID)}

\* the cursor stands on posting j of ps
StandsOn(c, ps, j) ==
    /\ valid(c)
    /\ Position(c) = j
    /\ doc(c) = ps[j].docID
    /\ freq(c) = ps[j].tf

\* what nextGEQ(target) has to do on the valid cursor c over ps, d being
\* the cursor after the call and ret what the call returned
NextGEQMoves(c, d, ret, ps, target) ==
    IF U32Le(target, doc(c)) THEN d = c /\ ret
    ELSE IF Qualifying(ps, Position(c), target) = {} THEN ~valid(d) /\ ~ret
    ELSE /\ ret
         /\ \E j \in Qualifying(ps, Position(c), target) :
               /\ StandsOn(d, ps, j)
               /\ \A i \in Qualifying(ps, Position(c), target) : j <= i

\* the list 3, 9, 17, 40, 128, 200: nextGEQ(20) on the opened cursor (r)
\* stops at 40 and nextGEQ(1000) after it leaves the cursor invalid
ExampleWalk(r, files) ==
    /\ r.ret /\ doc(r.c) = U32(3)
    /\ nextGEQ(r.c, U32(20), files).ret
    /\ doc(nextGEQ(r.c, U32(20), files).c) = U32(40)
    /\ ~nextGEQ(nextGEQ(r.c, U32(20), files).c, U32(1000), files).ret
    /\ ~valid(nextGEQ(nextGEQ(r.c, U32(20), files).c, U32(1000), files).c)

\* C31: a nextGEQ(target) call on a valid cursor that stands at target or
\* beyond changes nothing and returns true; on a valid cursor before target
\* it stops on the first posting after the current one whose docID is
\* target or more and returns true, or leaves the cursor invalid and
\* returns false when there is none.  On the list 3, 9, 17, 40, 128, 200
\* nextGEQ(20) stops at 40 and a further nextGEQ(1000) leaves the cursor
\* invalid.
C31_NextGEQFirstQualifying ==
    [][/\ (walk.op # "nextGEQ" /\ walk'.op = "nextGEQ" /\ valid(pl)) =>
              /\ walk'.status = "ok"
              /\ NextGEQMoves(pl, pl', walk'.ret, TermPostings(walk.term), walk'.target)
       /\ (walk.op = "none" /\ walk'.op = "open" /\ walk'.term = "m"
             /\ TermPostings("m") = ExampleRows) =>
              ExampleWalk([c |-> pl', ret |-> walk'.ret], PostingFiles(mg))]_vars

\* nextGEQ(20) on the list 3, 9, 17, 40, 128, 200 has stopped at 40, from
\* the posting 9
C31_Witness ==
    /\ walk.op = "nextGEQ"
    /\ walk.term = "m"
    /\ TermPostings("m") = ExampleRows
    /\ walk.target = U32(20)
    /\ walk.n = 2
    /\ walk.ret
    /\ doc(pl) = U32(40)
    /\ Position(pl) = 4

\* the targets tried on an invalid cursor: below, at and above the docID it
\* holds, and the largest docID
TargetsAround(c) ==
    {U32Zero, U32(20), c.currentDocID, U32Add(c.currentDocID, U32(1)), U32Max}

\* the call whose outcome is r has returned false and left the cursor as c
LeftAs(r, c) == r.status = "ok" /\ ~r.ret /\ r.c = c

\* C34: on a cursor that is not valid, next() and nextGEQ(target) return
\* false and the cursor after the call is the cursor before it, in every
\* field (block index, position, docID and frequency, buffers, stream
\* positions).
C34_InvalidIsAbsorbing ==
    ~valid(pl) =>
        /\ LeftAs(next(pl, PostingFiles(mg)), pl)
        /\ \A target \in TargetsAround(pl) :
              LeftAs(nextGEQ(pl, target, PostingFiles(mg)), pl)

\* a cursor has run off the end of a list of more than MaxBlocks blocks
\* with next() and is no longer valid
C34_Witness ==
    /\ walk.op = "next"
    /\ ~walk.ret
    /\ ~valid(pl)
    /\ pl.currentBlock = MaxBlocks + 1
    /\ pl.blockPos = 1
    /\ walk.n = MaxBlocks * BLOCK_SIZE + 1

\* C40: in every state of a cursor the block index is at most the number
\* of blocks of the term, and on a valid cursor the position is below the
\* length of the current block, both buffers hold that many entries, and
\* doc() and freq() are the entries of the buffers at the position.
C40_CursorWithinBlock ==
    /\ pl.currentBlock <= pl.totalBlocks
    /\ valid(pl) =>
          /\ U32Lt(U32(pl.blockPos), pl.blockLen)
          /\ Len(pl.docIDsBuffer) = ToNat(pl.blockLen)
          /\ Len(pl.freqsBuffer) = ToNat(pl.blockLen)
          /\ doc(pl) = pl.docIDsBuffer[pl.blockPos + 1]
          /\ freq(pl) = pl.freqsBuffer[pl.blockPos + 1]

\* a valid cursor stands on the second posting of the second block of a
\* list, reached with open() and next()
C40_Witness ==
    /\ valid(pl)
    /\ pl.totalBlocks >= 2
    /\ pl.currentBlock = 2
    /\ pl.blockPos = 1
    /\ walk.n = BLOCK_SIZE + 2

-----------------------------------------------------------------------------
(***************************************************************************)
(* The documents of the indexer                                            *)
(***************************************************************************)
\* the lines with a tab among the first n lines of the collection, in the
\* order of the input
RECURSIVE TabLines(_, _)
TabLines(collection, n) ==
    IF n = 0 THEN <<>>
    ELSE IF collection[n].hasTab
         THEN Append(TabLines(collection, n - 1), collection[n])
         ELSE TabLines(collection, n - 1)

\* the bytes of doc_content.bin that the first j documents of docs take
RECURSIVE ContentBefore(_, _)
ContentBefore(docs, j) ==
    IF j = 0 THEN 0
    ELSE ContentBefore(docs, j - 1) + ContentLength(docs[j].tokens) + 1

\* the rows of postingsOut with docID d, in the order they were written
RowsOf(rows, d) == SelectSeq(rows, LAMBDA r : r.docID = U32(d))

RECURSIVE TokensCounted(_)
TokensCounted(rows) ==
    IF rows = <<>> THEN 0 ELSE ToNat(rows[1].tf) + TokensCounted(Tail(rows))

\* the rows follow one another document by document
DocByDoc(rows) ==
    \A i \in 1..(Len(rows) - 1) : U32Le(rows[i].docID, rows[i + 1].docID)

\* what the indexer has written after the lines it has read, docs being the
\* lines with a tab among them
IndexedAs(b, docs) ==
    /\ b.currentDocID = U32(Len(docs))
    /\ b.docTableFile = [j \in 1..Len(docs) |-> U32(j - 1)]
    /\ b.docOffsetFile = [j \in 1..Len(docs) |->
                             [offset |-> ContentBefore(docs, j - 1),
                              length |-> ContentLength(docs[j].tokens)]]
    /\ DocByDoc(b.postingsOut)
    /\ \A i \in 1..Len(b.postingsOut) : ToNat(b.postingsOut[i].docID) < Len(docs)
    /\ \A j \in 1..Len(docs) :
          LET rows == RowsOf(b.postingsOut, j - 1)
          IN  /\ \A i, k \in 1..Len(rows) : i # k => rows[i].term # rows[k].term
              /\ {rows[i].term : i \in 1..Len(rows)}
                    = {docs[j].tokens[i] : i \in 1..Len(docs[j].tokens)}
              /\ TokensCounted(rows) = Len(docs[j].tokens)

\* C38: after every line read, the docIDs 0, 1, 2, ... have been given, in
\* the order of the input, to the lines with a tab and to no other line;
\* doc_table.txt has one line and doc_offset.bin one record for every docID
\* given; the rows of a document have distinct terms, the terms of its
\* tokens, and their tf values sum to the number of its tokens.
C38_DenseDocIDs == IndexedAs(ix, TabLines(ix.collection, ix.line))

\* the indexer has finished a collection of a document with a term that
\* comes twice, a line without a tab and a document without a token
C38_Witness ==
    /\ ix.pc = "finalized"
    /\ ix.collection = <<CollectionLine(TRUE, <<"b", "a", "b">>),
                         CollectionLine(FALSE, <<>>),
                         CollectionLine(TRUE, <<>>)>>
    /\ ix.currentDocID = U32(2)
    /\ Len(ix.postingsOut) = 2

-----------------------------------------------------------------------------
(***************************************************************************)
(* What the evaluator reads of its lists                                   *)
(***************************************************************************)
\* the values an invalid list may be left with
StaleDocIDs == {U32(d) : d \in 0..MaxDocID} \cup {U32Max}

\* the evaluator with currentDocID and currentFreq of every list that is
\* not valid replaced by d and f
Stale(q, d, f) ==
    [q EXCEPT !.lists = [i \in DOMAIN q.lists |->
                            IF valid(q.lists[i]) THEN q.lists[i]
                            ELSE [q.lists[i] EXCEPT !.currentDocID = d,
                                                    !.currentFreq = f]]]

\* the pass the evaluator is about to make
EvalPass(q, top, dir) ==
    IF q.pc = "or" THEN OrPass(q, top, dir) ELSE AndPass(q, top, dir)

SomeInvalid(q) == \E i \in DOMAIN q.lists : ~valid(q.lists[i])

\* C33: a pass of evaluateOR or evaluateAND comes out the same whatever
\* doc() and freq() of the lists that are not valid would give: what the
\* pass leaves (the heap, the docIDs offered, the lists that are valid,
\* where it goes next) does not depend on them.
C33_ReadsOnlyValid ==
    (qe.pc \in {"or", "and"} /\ SomeInvalid(qe)) =>
        LET dir == IndexDir(mg)
        IN  \A top \in TopChoices(qe.topK) :
               LET after == Stale(EvalPass(qe, top, dir), U32Zero, U32Zero)
               IN  \A d \in StaleDocIDs :
                      Stale(EvalPass(Stale(qe, d, U32(2)), top, dir), U32Zero, U32Zero)
                         = after

\* an OR query of two terms has a pass to make with one list at its end and
\* the other on a document still to be offered
C33_Witness ==
    /\ qe.pc = "or" /\ qe.variant = Later /\ Len(qe.lists) = 2
    /\ ~valid(qe.lists[1]) /\ valid(qe.lists[2])
    /\ doc(qe.lists[1]) = U32(1) /\ doc(qe.lists[2]) = U32(MaxDocID)
    /\ Len(qe.offered) >= 2

-----------------------------------------------------------------------------
(***************************************************************************)
(* The sum of the term scores.  score is a double, and  score += x  is the *)
(* addition of two doubles rounded to the nearest double, ties to even.  A *)
(* double stands here as the four 16-bit words of its bit pattern, the     *)
(* first word holding the sign, the exponent and the top four bits of the  *)
(* fraction.  The scores are positive and normal, or 0.0.                  *)
(***************************************************************************)
DoubleZero == <<0, 0, 0, 0>>

\* the bits of n, w of them, the most significant first
BitsOf(n, w) == [i \in 1..w |-> (n \div 2 ^ (w - i)) % 2]

\* the number that the bits of s, at most 16 of them, are
RECURSIVE NatOf(_)
NatOf(s) == IF s = <<>> THEN 0 ELSE 2 * NatOf(SubSeq(s, 1, Len(s) - 1)) + s[Len(s)]

Zeros(n) == [i \in 1..n |-> 0]

\* the eleven bits of the exponent
BiasedExponent(x) == (x[1] % 32768) \div 16

\* the 53 bits of the significand of a normal double, the leading 1 first
Significand(x) ==
    <<1>> \o BitsOf(x[1] % 16, 4) \o BitsOf(x[2], 16) \o BitsOf(x[3], 16)
          \o BitsOf(x[4], 16)

\* the double of exponent e and significand s
DoubleOf(e, s) ==
    <<e * 16 + NatOf(SubSeq(s, 2, 5)), NatOf(SubSeq(s, 6, 21)),
      NatOf(SubSeq(s, 22, 37)), NatOf(SubSeq(s, 38, 53))>>

\* the sum of two bit strings of one length whose first bits are 0
BitSum(a, b) ==
    LET n == Len(a)
        c[i \in 1..(n + 1)] ==
            IF i = n + 1 THEN 0 ELSE (a[i] + b[i] + c[i + 1]) \div 2
    IN  [i \in 1..n |-> (a[i] + b[i] + c[i + 1]) % 2]

\* the exact sum of the significands of x and y, x being the one of the
\* greater exponent, as a bit string whose last bit has the weight of the
\* last bit of y
ExactSum(x, y) ==
    LET d == BiasedExponent(x) - BiasedExponent(y)
    IN  BitSum(<<0>> \o Significand(x) \o Zeros(d),
               <<0>> \o Zeros(d) \o Significand(y))

\* s rounded to 53 bits, s being a bit string that starts with a 1 and has
\* 53 bits or more: to the nearest, and to the even one of two that are
\* equally near.  up tells that the rounding went up to the next power of 2.
RoundToNearestEven(s) ==
    LET kept == SubSeq(s, 1, 53)
        rest == SubSeq(s, 54, Len(s))
        more == /\ rest # <<>>
                /\ rest[1] = 1
                /\ \/ kept[53] = 1
                   \/ \E i \in 2..Len(rest) : rest[i] = 1
        next1 == BitSum(<<0>> \o kept, Zeros(53) \o <<1>>)
    IN  IF ~more THEN [up |-> FALSE, s |-> kept]
        ELSE IF next1[1] = 1 THEN [up |-> TRUE, s |-> SubSeq(next1, 1, 53)]
        ELSE [up |-> FALSE, s |-> SubSeq(next1, 2, 54)]

\* x + y for x of the greater exponent
AddOrdered(x, y) ==
    LET sum == ExactSum(x, y)
        lead == CHOOSE i \in 1..Len(sum) : sum[i] = 1 /\ \A j \in 1..(i - 1) : sum[j] = 0
        s == SubSeq(sum, lead, Len(sum))
        r == RoundToNearestEven(s)
    IN  DoubleOf(BiasedExponent(y) + (Len(s) - 53) + (IF r.up THEN 1 ELSE 0), r.s)

\* score += x
DoubleAdd(x, y) ==
    IF x = DoubleZero THEN y
    ELSE IF y = DoubleZero THEN x
    ELSE IF BiasedExponent(x) >= BiasedExponent(y) THEN AddOrdered(x, y)
    ELSE AddOrdered(y, x)

\* bm25::score(idf, tf, dl, avgdl, params) for a term that is in the one
\* document of a collection, the document having as many tokens as avgdl
\* says, for tf = 1, 2 and 3: log(4/3) * (1.9 tf / (tf + 0.9)), that is
\* 0.28768207245178085, 0.37696271562647143 and 0.420458413583372
ScoreOfTf(tf) ==
    CASE tf = 1 -> <<16338, 26978, 4404, 56209>>
      [] tf = 2 -> <<16344, 8232, 14811, 21676>>
      [] tf = 3 -> <<16346, 59594, 26602, 51904>>

\* the lists of a query stand on one document; as many as MaxLists
MaxLists == 4

\* the frequencies the lists have for the document, in the order of the
\* lists
ListFreqs == UNION {[1..n -> 1..3] : n \in 1..MaxLists}

\* the scoring loop of evaluateOR and evaluateAND about to start on a
\* document
ScoreStart(tfs) == [pc |-> "scoring", tfs |-> tfs, i |-> 0, score |-> DoubleZero]

\* the sum of the scores of the frequencies tfs, taken in their order
RECURSIVE ScoreSum(_)
ScoreSum(tfs) ==
    IF tfs = <<>> THEN DoubleZero
    ELSE DoubleAdd(ScoreSum(SubSeq(tfs, 1, Len(tfs) - 1)), ScoreOfTf(tfs[Len(tfs)]))

ScoreInit ==
    /\ vb = VbIdle
    /\ inFile = <<>>
    /\ mg = MergerIdle
    /\ pl = NewPostingList
    /\ walk = NoWalk
    /\ \E tfs \in ListFreqs : qe = ScoreStart(tfs)
    /\ ws = WsIdle
    /\ fsys = AllOpen
    /\ ix = IxIdle

\* one pass of the loop over the lists: score += bm25::score(...)
ScoreAdd ==
    /\ qe.pc = "scoring"
    /\ qe.i < Len(qe.tfs)
    /\ qe' = [qe EXCEPT !.i = @ + 1,
                        !.score = DoubleAdd(@, ScoreOfTf(qe.tfs[qe.i + 1]))]
    /\ UNCHANGED <<vb, inFile, mg, pl, walk, ws, fsys, ix>>

\* the document is offered to topK with the score
ScoreOffer ==
    /\ qe.pc = "scoring"
    /\ qe.i = Len(qe.tfs)
    /\ qe' = [qe EXCEPT !.pc = "offered"]
    /\ UNCHANGED <<vb, inFile, mg, pl, walk, ws, fsys, ix>>

ScoreNext == ScoreAdd \/ ScoreOffer

SpecScore == ScoreInit /\ [][ScoreNext]_vars

\* the orders the terms of a query of n terms can be listed in
Orders(n) == {p \in [1..n -> 1..n] : \A i, j \in 1..n : i # j => p[i] # p[j]}

\* C37: the score a document is offered with is the same in whatever order
\* the terms of the query, and so the lists, are taken.
C37_ScoreOrderFree ==
    qe.pc = "offered" =>
        \A p \in Orders(Len(qe.tfs)) :
            ScoreSum([i \in 1..Len(qe.tfs) |-> qe.tfs[p[i]]]) = qe.score

-----------------------------------------------------------------------------
(***************************************************************************)
(* processQuery on the modes and the values of k a caller can pass, and on *)
(* an index with the largest docID.  mode and k reach processQuery as the  *)
(* URL gives them (handleClient) or as the command line does (main).       *)
(***************************************************************************)
\* the mode strings tried
Modes == {"and", "AND", "And", "or", "OR"}

\* std::transform(lowerMode.begin(), lowerMode.end(), lowerMode.begin(),
\* tolower) on the mode strings tried
LowerMode(mode) ==
    CASE mode \in {"and", "AND", "And"} -> "and"
      [] mode \in {"or", "OR"} -> "or"

\* the values of k tried
EvalKValues == 0..2

\* the indexes the merger writes for the queries below
EvalInputs ==
    { TermRows("a", {0, 1, 2}, MaxDocID) \o TermRows("b", {1, 2, 3}, MaxDocID),
      TermRows("a", {1}, MaxDocID) \o TermRows("b", {0, 1}, MaxDocID),
      TermRows("b", {0, 2}, MaxDocID) }

\* the postings of "a" in an index that holds the largest docID
LargestPostings ==
    <<[docID |-> U32(1), frequency |-> U32(1)],
      [docID |-> U32Max, frequency |-> U32(1)]>>

\* index files with the term "a" in the documents 1 and 2^32 - 1, in the
\* format the merger writes; doc_len.bin and stats.txt are those of a
\* collection of two documents
LargestIndex ==
    [MergerConstructed EXCEPT
        !.pc = "done",
        !.opened = CtorFiles \cup StatsFiles,
        !.docIdsFile = writeDocIDsBlock(<<>>, LargestPostings, 0, 2),
        !.freqsFile = encode(encode(encode(<<>>, U32(2)), U32(1)), U32(1)),
        !.lexiconFile = <<[term |-> "a", df |-> 2, cf |-> 2, docids_offset |-> 0,
                           freqs_offset |-> 0, blocks |-> 1]>>,
        !.totalTerms = 1, !.totalPostings = 2, !.docCount = 2,
        !.docLenFile = [size |-> 2, nz |-> [d \in {1} |-> U32(1)]],
        !.statsFile = [doc_count |-> 2, total_terms |-> 1, total_postings |-> 2,
                       avgdl |-> AvgdlPrinted(1, 2), total_doc_length |-> 1]]

EvalCalls ==
    {NewQuery(t, mode, k, Later) :
        t \in {<<"a">>, <<"a", "b">>}, mode \in Modes, k \in EvalKValues}

EvalInit ==
    /\ vb = VbIdle
    /\ pl = NewPostingList
    /\ walk = NoWalk
    /\ \/ inFile \in EvalInputs /\ mg = process(inFile)
       \/ inFile = <<>> /\ mg = LargestIndex
    /\ qe \in EvalCalls
    /\ ws = WsIdle
    /\ fsys = AllOpen
    /\ ix = IxIdle

\* the update of topK reads topK.top(): the test  topK.size() < k  has failed
ReadsTop(topK, k) == ~(Len(topK) < k)

\* what top() can give for the heap of q
EvalTops(q) ==
    IF q.topK = <<>> /\ ReadsTop(q.topK, q.k)
    THEN {TopNotBelow, TopBelow, TopFault}
    ELSE TopChoices(q.topK)

\* the pass that took q to after offered a document to topK
Offered(q, after) == Len(after.offered) > Len(q.offered)

\* the evaluator after a pass, after being what the pass leaves when the
\* process is not stopped
Faulted(q, after, top) ==
    IF top = TopFault /\ q.topK = <<>> /\ Offered(q, after)
    THEN [q EXCEPT !.pc = "fault"]
    ELSE after

\* one pass of the loop of evaluateOR
EvalOrPass ==
    /\ qe.pc = "or"
    /\ \E top \in EvalTops(qe) :
          qe' = Faulted(qe, OrPass(qe, top, IndexDir(mg)), top)

\* one pass of the loop of evaluateAND
EvalAndPass ==
    /\ qe.pc = "and"
    /\ \E top \in EvalTops(qe) :
          qe' = Faulted(qe, AndPass(qe, top, IndexDir(mg)), top)

EvalNext ==
    /\ QuerySetup \/ EvalOrPass \/ EvalAndPass \/ QueryDrain \/ QueryReturn
    /\ UNCHANGED <<vb, inFile, mg, pl, walk, ws, fsys, ix>>

SpecEval == EvalInit /\ [][EvalNext]_vars

\* C36: evaluateAND is run when the mode in lower case is "and", whatever
\* the case of its letters, and evaluateOR when it is anything else.
C36_ModeIgnoresCase ==
    qe.pc \in {"and", "or"} => (qe.pc = "and" <=> LowerMode(qe.mode) = "and")

\* C35: after a document is offered topK holds k entries at most, and no
\* offer reads topK.top() when topK is empty.
C35_HeapWithinK ==
    [][ Offered(qe, qe') =>
           /\ ReadsTop(qe.topK, qe.k) => qe.topK # <<>>
           /\ qe'.pc # "fault" => Len(qe'.topK) <= qe.k ]_vars

\* C32: when the loop of evaluateOR has been left, no list is valid: every
\* docID of every list has been offered to topK.
C32_OrStopsWhenNoneValid ==
    (qe.pc \in {"drain", "done"} /\ qe.mode # "and") =>
        \A i \in 1..Len(qe.lists) : ~valid(qe.lists[i])

=============================================================================
